---- MODULE Spec2Model ----
(***************************************************************************)
(* Model of the alpha innotec heat pump planner (websocket_client.rs).     *)
(*                                                                         *)
(* Time stamps are whole minutes since a UTC midnight; the heat pump time  *)
(* zone is a fixed offset in minutes.  A message on the wire is a record   *)
(* [cmd, arg, val]: "SET;set_<arg>;<val>", "GET;<arg>", "SAVE;<val>",      *)
(* "MOVE;<val>", "LOGIN;<arg>".  A function body that only sends messages  *)
(* is unrolled into `script', the messages it still has to send, each      *)
(* tagged with whether the code awaits a text reply (send_and_await) or    *)
(* not (send).                                                             *)
(*                                                                         *)
(* The device is the environment: it stages SET values and commits them    *)
(* when it acknowledges SAVE, and it answers every awaited message with a  *)
(* text frame unless the connection breaks.                                *)
(***************************************************************************)
EXTENDS Integers, Sequences, FiniteSets, TLC

VARIABLES
    pc,            \* position of the caller in plan() or in the test driver
    driver,        \* "plan" (PlannerClient::plan) or "test" (tests::update_schedule)
    script,        \* messages the current function still has to send
    awaiting,      \* TRUE while send_and_await blocks on incoming_messages()
    sent,          \* messages written to the current connection, in order
    received,      \* text frames send_and_await returned on the connection
    navigation,    \* Navigation parsed from the LOGIN response
    config,        \* Config
    spot_prices,   \* the slice handed to the schedule function (after jitter)
    content,       \* Content.item.item parsed from the Week screen
    device,        \* the heat pump: slots, staged SETs, modes
    rewrites,      \* schedule rewrites completed by the test driver
    first_run,     \* what the driver's first rewrite sent and left on the device
    conn,          \* the connection that is open: "closed", "tap", "block", "test"
    store,         \* the state file / configmap: << >> or << State >>
    run,           \* the locals of the current plan() call
    hist           \* what the current plan() call has done so far

vars == << pc, driver, script, awaiting, sent, received, navigation, config, spot_prices,
           content, device, rewrites, first_run, conn, store, run, hist >>

----------------------------------------------------------------------------
\* Bounds of the model.

\* Largest number of slot items the device lists on a Week screen.
MaxSlots == 5

\* Rewrites the test driver performs in a row.
MaxRewrites == 2

\* Calls of plan() in a row.
MaxRuns == 2

----------------------------------------------------------------------------
\* Wire messages.

Msg(c, a, v) == [cmd |-> c, arg |-> a, val |-> v]

\* One entry of a script: the message, whether the code awaits a reply, and
\* what the device does when the message reaches the firmware screen the
\* macro was recorded on ("none" for plain protocol commands).
Step(m, w, e) == [msg |-> m, await |-> w, fx |-> e]

\* A step that stands for a local `?' returning Err without sending anything.
ErrStep == Step(Msg("ERR", "", 0), FALSE, "none")

----------------------------------------------------------------------------
\* chrono: DateTime::with_timezone(&tz).hour() / .minute()

hour(t, tz) == ((t + tz) \div 60) % 24

minute(t, tz) == (t + tz) % 60

\* Minutes since midnight in the heat pump time zone.
MinutesOfDay(t, tz) == 60 * hour(t, tz) + minute(t, tz)

----------------------------------------------------------------------------
\* Navigation (the tree the device returns on LOGIN).

NavItem(i, n, sub) == [id |-> i, name |-> n, items |-> sub]

\* The menu of the firmware the planner was written against.
DeviceNavigation ==
    << NavItem("0x45e068", "Informatie",
           << NavItem("0x45df90", "Temperaturen", << >>),
              NavItem("0x455968", "Ingangen", << >>) >>),
       NavItem("0x450798", "Instelling", << >>),
       NavItem("0x3dc420", "Klokprogramma",
           << NavItem("0x453560", "Verwarmen",
                  << NavItem("0x45e118", "Week", << >>) >>),
              NavItem("0x43e8e8", "Warmwater",
                  << NavItem("0x4642a8", "Week", << >>) >>) >>),
       NavItem("0x45c7b0", "Toegang: Gebruiker", << >>),
       NavItem("0x45cd88", "Afstandbediening", << >>) >>

\* Mutant: only the first item of the level is compared with the part.
FirstNamed_only_head(items, part) ==
    IF items # << >> /\ items[1].name = part THEN 1 ELSE 0

\* Mutant: the last item of that name is followed.
FirstNamed_last_match(items, part) ==
    IF \E i \in 1..Len(items) : items[i].name = part
    THEN CHOOSE i \in 1..Len(items) :
            /\ items[i].name = part
            /\ \A j \in (i + 1)..Len(items) : items[j].name # part
    ELSE 0

\* Index of the first item of `items' named `part', 0 when there is none.
FirstNamed(items, part) ==
    IF \E i \in 1..Len(items) : items[i].name = part
    THEN CHOOSE i \in 1..Len(items) :
            /\ items[i].name = part
            /\ \A j \in 1..(i - 1) : items[j].name # part
    ELSE 0

\* Navigation::get_navigation_item_id over the already split path:
\* [ok |-> TRUE, id |-> ...] or [ok |-> FALSE, id |-> the missing part].
RECURSIVE WalkPath(_, _, _)
WalkPath(items, parts, navigation_id) ==
    IF parts = << >> THEN [ok |-> TRUE, id |-> navigation_id]
    ELSE LET i == FirstNamed(items, Head(parts))
         IN  IF i = 0 THEN [ok |-> FALSE, id |-> Head(parts)]
             ELSE WalkPath(items[i].items, Tail(parts), items[i].id)

\* Mutant: the error names the last part of the path.
get_navigation_item_id_names_last_part(nav, item_path) ==
    LET r == WalkPath(nav, item_path, "")
    IN  IF r.ok THEN r ELSE [r EXCEPT !.id = item_path[Len(item_path)]]

get_navigation_item_id(nav, item_path) == WalkPath(nav, item_path, "")

TapWaterWeek == << "Klokprogramma", "Warmwater", "Week" >>

HeatingWeek == << "Klokprogramma", "Verwarmen", "Week" >>

----------------------------------------------------------------------------
\* The schedule functions, after the Week screen has been read.

\* Mutant: items that already read 0 are not reset.
ResetSets_skip_zero(items) ==
    LET dirty == SelectSeq(items, LAMBDA it : it.raw # 0)
    IN  [i \in 1..Len(dirty) |-> Msg("SET", dirty[i].id, 0)]

\* "set all items to 0"
ResetSets(items) == [i \in 1..Len(items) |-> Msg("SET", items[i].id, 0)]

first(s) == s[1]

last(s) == s[Len(s)]

\* The branch the tap water function takes for a window: "wrapping" is the
\* one commented "starts before midnight, finishes after", "same_day" the one
\* commented "start and finish on same day".
TapWaterBranch(sp, tz) ==
    LET from_hour == hour(first(sp).from, tz)
        till_hour == hour(last(sp).till, tz)
    IN  IF from_hour > till_hour THEN "wrapping" ELSE "same_day"

\* Mutant: the end of the window goes to the second item, not the last.
TapWaterSets_second_item(items, sp, tz) ==
    LET from_hour   == hour(first(sp).from, tz)
        from_minute == minute(first(sp).from, tz)
        till_hour   == hour(last(sp).till, tz)
        till_minute == minute(last(sp).till, tz)
    IN  IF from_hour > till_hour
        THEN << Msg("SET", first(items).id,
                    60 * till_hour + till_minute
                      + 65536 * (60 * from_hour + from_minute)) >>
        ELSE (IF from_hour > 0
              THEN << Msg("SET", first(items).id,
                          65536 * (60 * from_hour + from_minute)) >>
              ELSE << >>)
             \o
             (IF till_hour > 0
              THEN << Msg("SET", items[2].id, 60 * till_hour + till_minute) >>
              ELSE << >>)

\* Mutant: the halves are swapped, the start in the low half of the first
\* item and the end in the high half of the last.
TapWaterSets_halves_swapped(items, sp, tz) ==
    LET from_hour   == hour(first(sp).from, tz)
        from_minute == minute(first(sp).from, tz)
        till_hour   == hour(last(sp).till, tz)
        till_minute == minute(last(sp).till, tz)
    IN  IF from_hour > till_hour
        THEN << Msg("SET", first(items).id,
                    60 * from_hour + from_minute
                      + 65536 * (60 * till_hour + till_minute)) >>
        ELSE (IF from_hour > 0
              THEN << Msg("SET", first(items).id, 60 * from_hour + from_minute) >>
              ELSE << >>)
             \o
             (IF till_hour > 0
              THEN << Msg("SET", last(items).id,
                          65536 * (60 * till_hour + till_minute)) >>
              ELSE << >>)

\* The SET messages that encode the window on the tap water schedule.
TapWaterSets(items, sp, tz) ==
    LET from_hour   == hour(first(sp).from, tz)
        from_minute == minute(first(sp).from, tz)
        till_hour   == hour(last(sp).till, tz)
        till_minute == minute(last(sp).till, tz)
    IN  IF TapWaterBranch(sp, tz) = "wrapping"
        THEN << Msg("SET", first(items).id,
                    60 * till_hour + till_minute
                      + 65536 * (60 * from_hour + from_minute)) >>
        ELSE (IF from_hour > 0
              THEN << Msg("SET", first(items).id,
                          65536 * (60 * from_hour + from_minute)) >>
              ELSE << >>)
             \o
             (IF till_hour > 0
              THEN << Msg("SET", last(items).id, 60 * till_hour + till_minute) >>
              ELSE << >>)

\* Mutant: the heating schedule is encoded like the tap water schedule.
HeatingSets_as_tap_water(items, sp, tz) == TapWaterSets(items, sp, tz)

\* The SET messages that encode the window on the heating schedule.
HeatingSets(items, sp, tz) ==
    LET from_hour   == hour(first(sp).from, tz)
        from_minute == minute(first(sp).from, tz)
        till_hour   == hour(last(sp).till, tz)
        till_minute == minute(last(sp).till, tz)
    IN  IF from_hour > till_hour
        THEN (IF from_hour > 0
              THEN << Msg("SET", first(items).id, 60 * from_hour + from_minute) >>
              ELSE << >>)
             \o
             (IF till_hour > 0
              THEN << Msg("SET", last(items).id,
                          65536 * (60 * till_hour + till_minute)) >>
              ELSE << >>)
        ELSE << Msg("SET", first(items).id,
                    60 * from_hour + from_minute
                      + 65536 * (60 * till_hour + till_minute)) >>

AsSteps(msgs, w) == [i \in 1..Len(msgs) |-> Step(msgs[i], w, "none")]

\* Mutant: SAVE is written with send, not send_and_await.
SaveStep_not_awaited == Step(Msg("SAVE", "", 1), FALSE, "none")

\* "Saving changes"
SaveStep == Step(Msg("SAVE", "", 1), TRUE, "none")

\* Everything a schedule function does after parsing the Week screen:
\* the resets, then (window non-empty and more than one item) the time zone
\* lookup and the encoding SETs, then SAVE.
ScheduleScript(which, items, sp, cfg) ==
    AsSteps(ResetSets(items), FALSE)
    \o (IF sp # << >> /\ Len(items) > 1
        THEN IF cfg.heatpump_time_zone_valid
             THEN AsSteps(IF which = "tap"
                          THEN TapWaterSets(items, sp, cfg.heatpump_time_zone)
                          ELSE HeatingSets(items, sp, cfg.heatpump_time_zone),
                          FALSE)
                  \o << SaveStep >>
             ELSE << ErrStep >>
        ELSE << SaveStep >>)

----------------------------------------------------------------------------
\* The device.

Slot(i, r) == [id |-> i, raw |-> r]

\* The value `staged' leaves in the slot `id' that now holds `raw': that of
\* the last staged SET for the id.
RECURSIVE Committed(_, _, _)
Committed(id, raw, staged) ==
    IF staged = << >> THEN raw
    ELSE Committed(id, IF Head(staged).id = id THEN Head(staged).val ELSE raw,
                   Tail(staged))

CommitSlots(slots, staged) ==
    [i \in 1..Len(slots) |->
        Slot(slots[i].id, Committed(slots[i].id, slots[i].raw, staged))]

\* What the firmware does with one message.  A MOVE acts on the screen the
\* cursor is on; the macros reach these screens on the firmware they were
\* recorded on, and `fx' names what the button press does there.
DeviceReceives(d, m, fx) ==
    CASE m.cmd = "SET" ->
            [d EXCEPT !.staged = Append(@, [id |-> m.arg, val |-> m.val])]
      [] m.cmd = "SAVE" ->
            [d EXCEPT !.tap = CommitSlots(@, d.staged),
                      !.heat = CommitSlots(@, d.staged),
                      !.staged = << >>]
      [] fx = "apply_continu" -> [d EXCEPT !.continuous = ~@]
      [] fx = "edit_setpoint" -> [d EXCEPT !.editing = d.setpoint]
      [] fx = "setpoint_up" -> [d EXCEPT !.editing = @ + 5]
      [] fx = "setpoint_down" -> [d EXCEPT !.editing = @ - 5]
      [] fx = "apply_setpoint" -> [d EXCEPT !.setpoint = d.editing]
      [] OTHER -> d

\* Staged values do not survive the connection.
DeviceDisconnected(d) == [d EXCEPT !.staged = << >>]

----------------------------------------------------------------------------
\* send / send_and_await

\* What a failing `?' leaves behind: plan() (or the test) returns the error,
\* the reader and writer are dropped.
Failed(h) == [h EXCEPT !.failed_at = pc]

\* WebsocketClient::send: write one message, do not read.
send ==
    /\ script # << >> /\ ~awaiting
    /\ Head(script).msg.cmd # "ERR" /\ ~Head(script).await
    /\ sent' = Append(sent, Head(script).msg)
    /\ device' = DeviceReceives(device, Head(script).msg, Head(script).fx)
    /\ script' = Tail(script)
    /\ UNCHANGED << pc, driver, awaiting, received, conn, navigation, config,
                    spot_prices, content, rewrites, first_run, store, run, hist >>

\* WebsocketClient::send_and_await, the write.
send_and_await_request ==
    /\ script # << >> /\ ~awaiting
    /\ Head(script).msg.cmd # "ERR" /\ Head(script).await
    /\ sent' = Append(sent, Head(script).msg)
    /\ device' = DeviceReceives(device, Head(script).msg, Head(script).fx)
    /\ awaiting' = TRUE
    /\ UNCHANGED << pc, driver, script, received, conn, navigation, config,
                    spot_prices, content, rewrites, first_run, store, run, hist >>

\* Mutant: the wait ends after a while without a text frame.
send_and_await_text_times_out ==
    /\ awaiting
    /\ awaiting' = FALSE
    /\ script' = Tail(script)
    /\ UNCHANGED << pc, driver, sent, conn, navigation, config, spot_prices,
                    content, device, rewrites, first_run, store, run, hist,
                    received >>

\* WebsocketClient::send_and_await, the text frame that ends the wait.
send_and_await_text ==
    /\ awaiting
    /\ awaiting' = FALSE
    /\ received' = received + 1
    /\ script' = Tail(script)
    /\ UNCHANGED << pc, driver, sent, conn, navigation, config, spot_prices,
                    content, device, rewrites, first_run, store, run, hist >>

\* Mutant: a wait that fails gives up on the reply and the message is sent
\* once more.
exchange_fails_retries ==
    /\ script # << >>
    /\ Head(script).msg.cmd # "ERR"
    /\ awaiting
    /\ awaiting' = FALSE
    /\ UNCHANGED << pc, driver, script, sent, received, conn, navigation, config,
                    spot_prices, content, device, rewrites, first_run, store,
                    run, hist >>

\* sender.send_message(..)? fails, or the incoming stream ends or errors while
\* waiting: the `?' returns the error to the caller.
exchange_fails ==
    /\ script # << >>
    /\ Head(script).msg.cmd # "ERR"
    /\ pc' = "failed"
    /\ awaiting' = FALSE
    /\ script' = << >>
    /\ conn' = "closed"
    /\ device' = DeviceDisconnected(device)
    /\ hist' = Failed(hist)
    /\ UNCHANGED << driver, sent, received, navigation, config, spot_prices,
                    content, rewrites, first_run, store, run >>

\* A `?' on a local computation fails: config.get_heatpump_time_zone(), or
\* get_navigation_item_id inside navigate_to.
local_error ==
    /\ script # << >> /\ ~awaiting
    /\ Head(script).msg.cmd = "ERR"
    /\ pc' = "failed"
    /\ script' = << >>
    /\ conn' = "closed"
    /\ device' = DeviceDisconnected(device)
    /\ hist' = Failed(hist)
    /\ UNCHANGED << driver, awaiting, sent, received, navigation, config,
                    spot_prices, content, rewrites, first_run, store, run >>

\* navigate_to(.., path): resolve the path, then one awaited GET.
NavigateSteps(nav, path) ==
    LET r == get_navigation_item_id(nav, path)
    IN  IF r.ok THEN << Step(Msg("GET", r.id, 0), TRUE, "none") >>
        ELSE << ErrStep >>

----------------------------------------------------------------------------
\* set_tap_water_schedule_from_best_spot_prices and
\* set_heating_schedule_from_worst_spot_prices

\* The call: navigate_to(.., "Klokprogramma > ... > Week").
NavigateToWeek(which, path) ==
    /\ pc = which \o "_schedule"
    /\ script' = NavigateSteps(navigation, path)
    /\ pc' = which \o "_week"
    /\ UNCHANGED << driver, awaiting, sent, received, conn, navigation, config,
                    spot_prices, content, device, rewrites, first_run, store,
                    run, hist >>

\* from_str(&response_message): the items of the Week screen, then the loop
\* over them and the encoding of the window.
ParseWeek(which, slots) ==
    /\ pc = which \o "_week"
    /\ script = << >> /\ ~awaiting
    /\ content' = slots
    /\ script' = ScheduleScript(which, slots, spot_prices, config)
    /\ pc' = which \o "_sets"
    /\ UNCHANGED << driver, awaiting, sent, received, conn, navigation, config,
                    spot_prices, device, rewrites, first_run, store, run, hist >>

tap_water_navigate == NavigateToWeek("tap", TapWaterWeek)

tap_water_parse == ParseWeek("tap", device.tap)

heating_navigate == NavigateToWeek("heat", HeatingWeek)

heating_parse == ParseWeek("heat", device.heat)

----------------------------------------------------------------------------
\* tests::update_schedule: log in and call the schedule function directly.

NoRun == [sent |-> << >>, tap |-> << >>, heat |-> << >>]

\* The schedule function returns Ok(()) to the test.
test_schedule_returns ==
    /\ driver \in {"test_tap", "test_heat"}
    /\ pc \in {"tap_sets", "heat_sets"}
    /\ script = << >> /\ ~awaiting
    /\ pc' = "returned"
    /\ conn' = "closed"
    /\ rewrites' = rewrites + 1
    /\ first_run' = IF rewrites = 0
                    THEN [sent |-> sent, tap |-> device.tap, heat |-> device.heat]
                    ELSE first_run
    /\ UNCHANGED << driver, script, awaiting, sent, received, navigation, config,
                    spot_prices, content, device, store, run, hist >>

\* The test is run again with the same arguments on a new connection.
test_schedule_again ==
    /\ driver \in {"test_tap", "test_heat"}
    /\ pc = "returned"
    /\ rewrites < MaxRewrites
    /\ pc' = IF driver = "test_tap" THEN "tap_schedule" ELSE "heat_schedule"
    /\ conn' = "test"
    /\ sent' = << >>
    /\ received' = 0
    /\ content' = << >>
    /\ UNCHANGED << driver, script, awaiting, navigation, config, spot_prices,
                    device, rewrites, first_run, store, run, hist >>

----------------------------------------------------------------------------
\* Inputs of the schedule functions.

PricedSpotPrice(f, t, market, other) ==
    [from |-> f, till |-> t, market_price |-> market, market_price_tax |-> 0,
     sourcing_markup_price |-> 0, energy_tax_price |-> other]

\* Hourly spot prices covering [f, t), each at the given prices.
RECURSIVE PricedWindow(_, _, _, _)
PricedWindow(f, t, market, other) ==
    IF t <= f THEN << >>
    ELSE IF t - f <= 60 THEN << PricedSpotPrice(f, t, market, other) >>
    ELSE << PricedSpotPrice(f, f + 60, market, other) >>
         \o PricedWindow(f + 60, t, market, other)

Window(f, t) == PricedWindow(f, t, 100, 120)

\* Starts of the windows, minutes after a UTC midnight: 00:00, 00:30, 01:00,
\* 03:00, 10:00, 10:30, 22:00, 23:30.
CodecFroms == {1440 + m : m \in {0, 30, 60, 180, 600, 630, 1320, 1410}}

\* Lengths of the windows in minutes; the planner looks at most 24 hours
\* ahead, so a window is shorter than a day.
CodecDurations == {15, 60, 120, 300, 600, 1425}

CodecWindows ==
    {<< >>} \cup {Window(f, f + d) : f \in CodecFroms, d \in CodecDurations}

MkConfig(tz, valid, jitter, blocking) ==
    [heatpump_time_zone |-> tz, heatpump_time_zone_valid |-> valid,
     desired_tap_water_temperature |-> 570,
     min_hours_since_last_desinfection |-> 96,
     max_hours_since_last_desinfection |-> 240,
     jitter_max_minutes |-> jitter,
     enable_blocking_worst_heating_times |-> blocking]

CodecConfigs ==
    {MkConfig(0, TRUE, 0, TRUE), MkConfig(120, TRUE, 0, TRUE),
     MkConfig(0, FALSE, 0, TRUE)}

\* A Week screen of n slots; what they hold before the run: all zero, or the
\* schedule of the test fixture in model.rs (1: 10:00 - 00:00, 2: 00:00 - 03:00).
SlotList(ids, n, dirty) ==
    [i \in 1..n |->
        Slot(ids[i],
             IF ~dirty THEN 0
             ELSE IF i = 1 THEN 600
             ELSE IF i = 2 THEN 11796480
             ELSE 0)]

\* Item ids of the tap water Week screen (the first five are those of the
\* fixture) and of the heating Week screen.
TapSlotIds ==
    << "0xa57344", "0xa53c8c", "0xa47ee4", "0xa6630c", "0xa68d74",
       "0xa6a001", "0xa6a002", "0xa6a003" >>

HeatSlotIds ==
    << "0xb57344", "0xb53c8c", "0xb47ee4", "0xb6630c", "0xb68d74",
       "0xb6a001", "0xb6a002", "0xb6a003" >>

MkDevice(n, dirty, continuous, setpoint) ==
    [tap |-> SlotList(TapSlotIds, n, dirty),
     heat |-> SlotList(HeatSlotIds, n, dirty),
     staged |-> << >>, continuous |-> continuous,
     setpoint |-> setpoint, editing |-> setpoint]

CodecDevices == {MkDevice(n, dirty, FALSE, 570) : n \in 0..MaxSlots, dirty \in BOOLEAN}

NoLocals ==
    [current_desinfection_enabled |-> FALSE,
     desinfection_finished_at |-> 0,
     desinfection_desired |-> FALSE,
     best_spot_prices |-> << >>,
     worst_spot_prices |-> << >>,
     now |-> 0]

NoHist ==
    [runs |-> 0, opened |-> 0, toggles |-> 0, stores |-> 0, done |-> {},
     failed_at |-> "", store_before |-> << >>]

InitCodec ==
    /\ driver \in {"test_tap", "test_heat"}
    /\ pc = IF driver = "test_tap" THEN "tap_schedule" ELSE "heat_schedule"
    /\ script = << >>
    /\ awaiting = FALSE
    /\ sent = << >>
    /\ received = 0
    /\ conn = "test"
    /\ navigation = DeviceNavigation
    /\ config \in CodecConfigs
    /\ spot_prices \in CodecWindows
    /\ content = << >>
    /\ device \in CodecDevices
    /\ rewrites = 0
    /\ first_run = NoRun
    /\ store = << >>
    /\ run = NoLocals
    /\ hist = NoHist

NextCodec ==
    \/ tap_water_navigate
    \/ tap_water_parse
    \/ heating_navigate
    \/ heating_parse
    \/ send
    \/ send_and_await_request
    \/ send_and_await_text
    \/ exchange_fails
    \/ local_error
    \/ test_schedule_returns
    \/ test_schedule_again

SpecCodec == InitCodec /\ [][NextCodec]_vars

----------------------------------------------------------------------------
\* UI gestures and the fixed gesture macros.

Move(n) == Step(Msg("MOVE", "", n), TRUE, "none")

move_right == << Move(0), Move(6) >>

move_left == << Move(1), Move(6) >>

\* Mutant: the click is not followed by the confirmation.
click_without_confirm == << Move(2) >>

click == << Move(2), Move(6) >>

\* The gesture whose button press has the effect `fx' on the device.
Pressed(gesture, fx) == [gesture EXCEPT ![1].fx = fx]

RECURSIVE Repeat(_, _)
Repeat(gesture, n) == IF n <= 0 THEN << >> ELSE gesture \o Repeat(gesture, n - 1)

Afstandbediening == << "Afstandbediening" >>

toggle_continuous_desinfection(nav) ==
    NavigateSteps(nav, Afstandbediening)
    \o click                                     \* to menu
    \o Repeat(move_right, 3) \o click            \* to warmwater
    \o Repeat(move_right, 4) \o click            \* to onderhoudsprogramma
    \o click                                     \* to thermische desinfectie
    \o Repeat(move_right, 7)                     \* to continu
    \o click                                     \* check/uncheck continu
    \o move_right \o Pressed(click, "apply_continu")   \* apply
    \o Repeat(click, 4)                          \* back to home

\* set_tap_water_temperature after the setpoint has been read and differs.
AdjustTemperature(nav, value, desired_tap_water_temperature) ==
    LET diff == desired_tap_water_temperature - value
    IN  NavigateSteps(nav, Afstandbediening)
        \o click                                 \* to menu
        \o Repeat(move_right, 3) \o click        \* to warmwater
        \o move_right \o click                   \* to temperatuur
        \o Pressed(click, "edit_setpoint")       \* to gewenste waarde
        \o (IF diff > 0
            THEN Repeat(Pressed(move_right, "setpoint_up"), diff \div 5)
            ELSE Repeat(Pressed(move_left, "setpoint_down"), (0 - diff) \div 5))
        \o click
        \o Pressed(click, "apply_setpoint")      \* apply
        \o Repeat(click, 3)                      \* back to home

----------------------------------------------------------------------------
\* The decision functions.

RECURSIVE SumMarket(_)
SumMarket(sp) ==
    IF sp = << >> THEN 0 ELSE Head(sp).market_price + SumMarket(Tail(sp))

RECURSIVE SumAllIn(_)
SumAllIn(sp) ==
    IF sp = << >> THEN 0
    ELSE Head(sp).market_price + Head(sp).market_price_tax
         + Head(sp).sourcing_markup_price + Head(sp).energy_tax_price
         + SumAllIn(Tail(sp))

\* chrono::Duration::num_hours of a duration in minutes (rounds toward zero).
num_hours(d) == IF d >= 0 THEN d \div 60 ELSE 0 - ((0 - d) \div 60)

\* Mutant: the elapsed hours are tested before the price, so a total price
\* <= 0 no longer forces desinfection.
is_desinfection_desired_hours_first(min_hours, max_hours, desinfection_finished_at, lowest, highest) ==
    IF max_hours <= min_hours THEN [ok |-> FALSE, value |-> FALSE]
    ELSE IF lowest = << >> THEN [ok |-> TRUE, value |-> FALSE]
    ELSE LET hours == num_hours(last(lowest).till - desinfection_finished_at)
             hours_since_min == hours - min_hours
             hours_between_min_and_max == max_hours - min_hours
         IN  [ok |-> TRUE,
              value |->
                IF hours < min_hours THEN FALSE
                ELSE IF SumAllIn(lowest) <= 0 THEN TRUE
                ELSE IF hours > max_hours THEN TRUE
                ELSE SumMarket(lowest)
                       * (hours_between_min_and_max * hours_between_min_and_max)
                     < (hours_since_min * hours_since_min) * SumMarket(highest)]

\* Mutant: the test against min_hours is missing, the ramp also decides
\* below it.
is_desinfection_desired_no_minimum(min_hours, max_hours, desinfection_finished_at, lowest, highest) ==
    IF max_hours <= min_hours THEN [ok |-> FALSE, value |-> FALSE]
    ELSE IF lowest = << >> THEN [ok |-> TRUE, value |-> FALSE]
    ELSE LET hours == num_hours(last(lowest).till - desinfection_finished_at)
             hours_since_min == hours - min_hours
             hours_between_min_and_max == max_hours - min_hours
         IN  [ok |-> TRUE,
              value |->
                IF SumAllIn(lowest) <= 0 THEN TRUE
                ELSE IF hours > max_hours THEN TRUE
                ELSE SumMarket(lowest)
                       * (hours_between_min_and_max * hours_between_min_and_max)
                     < (hours_since_min * hours_since_min) * SumMarket(highest)]

\* Mutant: the fraction is not squared.
is_desinfection_desired_linear_ramp(min_hours, max_hours, desinfection_finished_at, lowest, highest) ==
    IF max_hours <= min_hours THEN [ok |-> FALSE, value |-> FALSE]
    ELSE IF lowest = << >> THEN [ok |-> TRUE, value |-> FALSE]
    ELSE LET hours == num_hours(last(lowest).till - desinfection_finished_at)
             hours_since_min == hours - min_hours
             hours_between_min_and_max == max_hours - min_hours
         IN  [ok |-> TRUE,
              value |->
                IF SumAllIn(lowest) <= 0 THEN TRUE
                ELSE IF hours < min_hours THEN FALSE
                ELSE IF hours > max_hours THEN TRUE
                ELSE SumMarket(lowest) * hours_between_min_and_max
                     < hours_since_min * SumMarket(highest)]

\* [ok |-> FALSE, ..] is the Err of the max <= min check.
is_desinfection_desired(min_hours, max_hours, desinfection_finished_at, lowest, highest) ==
    IF max_hours <= min_hours THEN [ok |-> FALSE, value |-> FALSE]
    ELSE IF lowest = << >> THEN [ok |-> TRUE, value |-> FALSE]
    ELSE LET hours == num_hours(last(lowest).till - desinfection_finished_at)
             hours_since_min == hours - min_hours
             hours_between_min_and_max == max_hours - min_hours
         IN  [ok |-> TRUE,
              value |->
                IF SumAllIn(lowest) <= 0 THEN TRUE
                ELSE IF hours < min_hours THEN FALSE
                ELSE IF hours > max_hours THEN TRUE
                ELSE SumMarket(lowest)
                       * (hours_between_min_and_max * hours_between_min_and_max)
                     < (hours_since_min * hours_since_min) * SumMarket(highest)]

\* Mutant: a window that starts exactly 12 hours ahead is deferred too.
get_spot_prices_for_tapwater_heating_or_desinfection_from_12_hours(cfg, planner, now, desinfection_finished_at) ==
    IF \/ planner.desinfection = << >>
       \/ first(planner.desinfection).from >= now + 12 * 60
    THEN [ok |-> TRUE, spot_prices |-> planner.heating, desired |-> FALSE]
    ELSE LET d == is_desinfection_desired(cfg.min_hours_since_last_desinfection,
                                          cfg.max_hours_since_last_desinfection,
                                          desinfection_finished_at,
                                          planner.desinfection, planner.highest)
         IN  IF ~d.ok THEN [ok |-> FALSE, spot_prices |-> << >>, desired |-> FALSE]
             ELSE IF d.value
             THEN [ok |-> TRUE, spot_prices |-> planner.desinfection, desired |-> TRUE]
             ELSE [ok |-> TRUE, spot_prices |-> planner.heating, desired |-> FALSE]

\* `planner' holds the planner's answers for this run.
get_spot_prices_for_tapwater_heating_or_desinfection(cfg, planner, now, desinfection_finished_at) ==
    IF \/ planner.desinfection = << >>
       \/ first(planner.desinfection).from > now + 12 * 60
    THEN [ok |-> TRUE, spot_prices |-> planner.heating, desired |-> FALSE]
    ELSE LET d == is_desinfection_desired(cfg.min_hours_since_last_desinfection,
                                          cfg.max_hours_since_last_desinfection,
                                          desinfection_finished_at,
                                          planner.desinfection, planner.highest)
         IN  IF ~d.ok THEN [ok |-> FALSE, spot_prices |-> << >>, desired |-> FALSE]
             ELSE IF d.value
             THEN [ok |-> TRUE, spot_prices |-> planner.desinfection, desired |-> TRUE]
             ELSE [ok |-> TRUE, spot_prices |-> planner.heating, desired |-> FALSE]

\* rng.gen_range(0..2 * jitter_max_minutes): what the generator may return.
JitterDraws(cfg, sp) ==
    IF sp = << >> \/ cfg.jitter_max_minutes = 0 THEN {0}
    ELSE 0..(2 * cfg.jitter_max_minutes - 1)

\* Mutant: jitter_max_minutes is not subtracted from the draw.
add_jitter_to_spot_prices_forward_only(cfg, sp, draw) ==
    IF sp = << >> \/ cfg.jitter_max_minutes = 0 THEN sp
    ELSE LET shift_minutes == draw
         IN  [i \in 1..Len(sp) |->
                [sp[i] EXCEPT !.from = @ + shift_minutes,
                              !.till = @ + shift_minutes]]

add_jitter_to_spot_prices(cfg, sp, draw) ==
    IF sp = << >> \/ cfg.jitter_max_minutes = 0 THEN sp
    ELSE LET shift_minutes == draw - cfg.jitter_max_minutes
         IN  [i \in 1..Len(sp) |->
                [sp[i] EXCEPT !.from = @ + shift_minutes,
                              !.till = @ + shift_minutes]]

----------------------------------------------------------------------------
\* get_item_from_response.  A response is the sequence of its
\* <item><name>..</name><value>..</value></item> elements, a value the
\* sequence of its characters; numbers are in tenths.

Digits == << "0", "1", "2", "3", "4", "5", "6", "7", "8", "9" >>

IsDigit(c) == \E d \in 1..10 : Digits[d] = c

DigitValue(c) == (CHOOSE d \in 1..10 : Digits[d] = c) - 1

\* The decimal digits of a natural number.
RECURSIVE Decimal(_)
Decimal(n) ==
    IF n < 10 THEN << Digits[n + 1] >>
    ELSE Decimal(n \div 10) \o << Digits[(n % 10) + 1] >>

\* How the device writes a number of tenths: "57.0", "-5.0".
Rendered(n) ==
    IF n < 0 THEN << "-" >> \o Decimal((0 - n) \div 10) \o << "." >> \o Decimal((0 - n) % 10)
    ELSE Decimal(n \div 10) \o << "." >> \o Decimal(n % 10)

\* Length of the longest prefix of v made of digits and dots: [0-9.]+
RECURSIVE NumberPrefix(_)
NumberPrefix(v) ==
    IF v # << >> /\ (IsDigit(Head(v)) \/ Head(v) = ".")
    THEN 1 + NumberPrefix(Tail(v))
    ELSE 0

\* Group 1 of the regex on a value, (-?[0-9.]+|---) followed by [^<]*:
\* << the captured text >>, or << >> when the value does not match.
Captured(v) ==
    LET signed == v # << >> /\ Head(v) = "-"
        digits == IF signed THEN NumberPrefix(Tail(v)) ELSE NumberPrefix(v)
    IN  IF signed /\ digits > 0 THEN << SubSeq(v, 1, digits + 1) >>
        ELSE IF digits > 0 THEN << SubSeq(v, 1, digits) >>
        ELSE IF Len(v) >= 3 /\ SubSeq(v, 1, 3) = << "-", "-", "-" >>
             THEN << SubSeq(v, 1, 3) >>
        ELSE << >>

\* The natural number written by a sequence of digits.
RECURSIVE Natural(_)
Natural(ds) ==
    IF ds = << >> THEN 0
    ELSE 10 * Natural(SubSeq(ds, 1, Len(ds) - 1)) + DigitValue(ds[Len(ds)])

\* str::parse::<f64>() of an optional sign, digits and dots: an error unless
\* there is at most one dot and at least one digit.  The value is in tenths;
\* digits after the first decimal are not kept.
parse(text) ==
    LET signed == text # << >> /\ Head(text) = "-"
        body == IF signed THEN Tail(text) ELSE text
        dots == {i \in 1..Len(body) : body[i] = "."}
        dot == IF dots = {} THEN Len(body) + 1 ELSE CHOOSE i \in dots : TRUE
        whole == SubSeq(body, 1, dot - 1)
        fraction == SubSeq(body, dot + 1, Len(body))
        tenths == 10 * Natural(whole)
                  + (IF fraction = << >> THEN 0 ELSE DigitValue(fraction[1]))
    IN  IF Cardinality(dots) > 1 \/ Len(whole) + Len(fraction) = 0
        THEN [ok |-> FALSE, value |-> 0]
        ELSE [ok |-> TRUE, value |-> IF signed THEN 0 - tenths ELSE tenths]

\* Index of the first item named `item' whose value the regex matches, 0
\* when there is none.
FirstMatch(item, response_message) ==
    LET hits == {i \in 1..Len(response_message) :
                    /\ response_message[i].name = item
                    /\ Captured(response_message[i].value) # << >>}
    IN  IF hits = {} THEN 0 ELSE CHOOSE i \in hits : \A j \in hits : i <= j

\* Mutant: a field that is absent reads as 0.0.
get_item_from_response_absent_is_zero(item, response_message) ==
    LET i == FirstMatch(item, response_message)
    IN  IF i = 0 THEN [ok |-> TRUE, value |-> 0]
        ELSE LET value == Captured(response_message[i].value)[1]
             IN  IF value = << "-", "-", "-" >> THEN [ok |-> TRUE, value |-> 0]
                 ELSE parse(value)

get_item_from_response(item, response_message) ==
    LET i == FirstMatch(item, response_message)
    IN  IF i = 0 THEN [ok |-> FALSE, value |-> 0]
        ELSE LET value == Captured(response_message[i].value)[1]
             IN  IF value = << "-", "-", "-" >> THEN [ok |-> TRUE, value |-> 0]
                 ELSE parse(value)

ResponseItem(n, v) == [name |-> n, value |-> v]

\* The "Informatie > Temperaturen" screen: the measured and the set tap
\* water temperature.
Temperaturen(d) ==
    << ResponseItem("Tapwater gemeten", << "5", "4", ".", "2", "°C" >>),
       ResponseItem("Tapwater ingesteld", Rendered(d.setpoint) \o << "°C" >>) >>

----------------------------------------------------------------------------
\* PlannerClient::plan

MAXIMUM_TAP_WATER_TEMPERATURE == 580

State(enabled, finished_at, planned) ==
    [desinfection_enabled |-> enabled,
     desinfection_finished_at |-> << finished_at >>,
     planned_spot_prices |-> << planned >>]

\* StateClient (state_client.rs).  A YAML document is a sequence of mapping
\* entries; a scalar carries what kind of value the text is (bool, time,
\* null, text, prices) and the value.
Scalar(type, b, t, p) == [type |-> type, bool |-> b, time |-> t, prices |-> p]

Entry(k, v) == [key |-> k, value |-> v]

\* The values of the entries of `doc' under `key'.
Entries(doc, key) ==
    LET hits == SelectSeq(doc, LAMBDA e : e.key = key)
    IN  [i \in 1..Len(hits) |-> hits[i].value]

\* serde_yaml::to_string(state), with the camelCase names of the struct.
to_string(state) ==
    << Entry("desinfectionEnabled",
             Scalar("bool", state.desinfection_enabled, 0, << >>)),
       Entry("desinfectionFinishedAt",
             IF state.desinfection_finished_at = << >>
             THEN Scalar("null", FALSE, 0, << >>)
             ELSE Scalar("time", FALSE, state.desinfection_finished_at[1], << >>)),
       Entry("plannedSpotPrices",
             IF state.planned_spot_prices = << >>
             THEN Scalar("null", FALSE, 0, << >>)
             ELSE Scalar("prices", FALSE, 0, state.planned_spot_prices[1])) >>

\* serde_yaml::from_str::<State>: the flag is required and a bool, the
\* optional fields may be absent or null, other keys are ignored.
from_str_state(doc) ==
    LET enabled == Entries(doc, "desinfectionEnabled")
        finished_at == Entries(doc, "desinfectionFinishedAt")
        planned == Entries(doc, "plannedSpotPrices")
        Err == [ok |-> FALSE, value |-> << >>]
    IN  IF Len(enabled) # 1 \/ Len(finished_at) > 1 \/ Len(planned) > 1 THEN Err
        ELSE IF enabled[1].type # "bool" THEN Err
        ELSE IF finished_at # << >> /\ finished_at[1].type \notin {"time", "null"}
        THEN Err
        ELSE IF planned # << >> /\ planned[1].type \notin {"prices", "null"}
        THEN Err
        ELSE [ok |-> TRUE,
              value |-> <<
                 [desinfection_enabled |-> enabled[1].bool,
                  desinfection_finished_at |->
                      IF finished_at = << >> THEN << >>
                      ELSE IF finished_at[1].type = "null" THEN << >>
                      ELSE << finished_at[1].time >>,
                  planned_spot_prices |->
                      IF planned = << >> THEN << >>
                      ELSE IF planned[1].type = "null" THEN << >>
                      ELSE << planned[1].prices >>] >>]

\* The file at state_file_path: whether fs::read_to_string finds and reads
\* it, and the document in it.
StateFile(found, readable, doc) == [found |-> found, readable |-> readable, doc |-> doc]

\* The file the configmap of store_state is mounted as.
MountedFile(st) ==
    IF st = << >> THEN StateFile(FALSE, FALSE, << >>)
    ELSE StateFile(TRUE, TRUE, to_string(st[1]))

\* Mutant: a state file that does not parse fails the run.
read_state_parse_error_is_fatal(file) ==
    IF ~file.found \/ ~file.readable THEN [ok |-> TRUE, state |-> << >>]
    ELSE LET last_state == from_str_state(file.doc)
         IN  IF ~last_state.ok THEN [ok |-> FALSE, state |-> << >>]
             ELSE [ok |-> TRUE, state |-> last_state.value]

\* StateClient::read_state: Ok(None) when the file cannot be read or parsed.
read_state(file) ==
    IF ~file.found \/ ~file.readable THEN [ok |-> TRUE, state |-> << >>]
    ELSE LET last_state == from_str_state(file.doc)
         IN  IF ~last_state.ok THEN [ok |-> TRUE, state |-> << >>]
             ELSE [ok |-> TRUE, state |-> last_state.value]

\* Lines 82-85.
current_desinfection_enabled(state) ==
    IF state = << >> THEN FALSE ELSE state[1].desinfection_enabled

\* Mutant: the stored finish time is not used.
desinfection_finished_at_ignores_state(state, now) ==
    now - 7 * 1440

\* Lines 87-93.
desinfection_finished_at(state, now) ==
    IF state = << >> THEN now - 7 * 1440
    ELSE IF state[1].desinfection_finished_at = << >> THEN now - 7 * 1440
    ELSE state[1].desinfection_finished_at[1]

\* The first run starts at 00:00 UTC of day 10, the scheduler starts the
\* next ones an hour apart.
StartTime == 10 * 1440

\* What the planner may answer for the tap water load profile (12 hours
\* ahead): nothing, or the block 01:00 - 03:00 UTC.
HeatingAnswers == {<< >>, Window(StartTime + 60, StartTime + 180)}

\* What it may answer for the desinfection load profile at lowest price
\* (24 hours ahead): nothing; the block 02:00 - 04:30 UTC at a low, a high
\* or a negative price; or a block that starts more than 12 hours ahead.
DesinfectionAnswers ==
    {<< >>,
     PricedWindow(StartTime + 120, StartTime + 270, 50, 120),
     PricedWindow(StartTime + 120, StartTime + 270, 100, 120),
     PricedWindow(StartTime + 120, StartTime + 270, 0 - 300, 120),
     PricedWindow(StartTime + 900, StartTime + 1050, 50, 120)}

\* The desinfection load profile at highest price.
HighestAnswer == PricedWindow(StartTime + 1020, StartTime + 1170, 300, 120)

\* The worst hour for heating: none, or 17:00 - 18:00 UTC.
WorstAnswers == {<< >>, PricedWindow(StartTime + 1020, StartTime + 1080, 300, 120)}

\* Lines 72-105: read the state, decide on the window.
plan_start ==
    /\ driver = "plan"
    /\ pc \in {"idle", "done", "failed"}
    /\ hist.runs < MaxRuns
    /\ \E heating \in HeatingAnswers, desinfection \in DesinfectionAnswers :
        LET now == StartTime + 60 * hist.runs
            state == read_state(MountedFile(store)).state
            r == get_spot_prices_for_tapwater_heating_or_desinfection(
                     config,
                     [heating |-> heating, desinfection |-> desinfection,
                      highest |-> HighestAnswer],
                     now, desinfection_finished_at(state, now))
        IN  /\ run' = [current_desinfection_enabled |->
                           current_desinfection_enabled(state),
                       desinfection_finished_at |->
                           desinfection_finished_at(state, now),
                       desinfection_desired |-> r.desired,
                       best_spot_prices |-> r.spot_prices,
                       worst_spot_prices |-> << >>,
                       now |-> now]
            /\ hist' = [NoHist EXCEPT !.runs = hist.runs + 1,
                                      !.store_before = store,
                                      !.failed_at = IF r.ok THEN "" ELSE "idle"]
            /\ pc' = IF ~r.ok THEN "failed"
                     ELSE IF r.spot_prices # << >> THEN "tap_connect"
                     ELSE "block_plan"
    /\ sent' = << >>
    /\ received' = 0
    /\ navigation' = << >>
    /\ spot_prices' = << >>
    /\ content' = << >>
    /\ UNCHANGED << driver, script, awaiting, conn, config, device, rewrites,
                    first_run, store >>

\* Mutant: the session starts without a login.
Connect_without_login(phase) ==
    /\ pc = phase \o "_connect"
    /\ conn' = phase
    /\ sent' = << >>
    /\ received' = 0
    /\ navigation' = << >>
    /\ script' = << >>
    /\ pc' = phase \o "_login"
    /\ hist' = [hist EXCEPT !.opened = @ + 1]
    /\ UNCHANGED << driver, awaiting, config, spot_prices, content,
                    device, rewrites, first_run, store, run >>

\* ClientBuilder::new(..).connect_insecure(), connection.split(), and the
\* call of login; `navigation' of this block is not bound yet.
Connect(phase) ==
    /\ pc = phase \o "_connect"
    /\ conn' = phase
    /\ sent' = << >>
    /\ received' = 0
    /\ navigation' = << >>
    /\ script' = << Step(Msg("LOGIN", "login_code", 0), TRUE, "none") >>
    /\ pc' = phase \o "_login"
    /\ hist' = [hist EXCEPT !.opened = @ + 1]
    /\ UNCHANGED << driver, awaiting, config, spot_prices, content,
                    device, rewrites, first_run, store, run >>

tap_connect == Connect("tap")

block_connect == Connect("block")

connect_fails ==
    /\ pc \in {"tap_connect", "block_connect"}
    /\ pc' = "failed"
    /\ hist' = Failed(hist)
    /\ UNCHANGED << driver, script, awaiting, sent, received, conn, navigation,
                    config, spot_prices, content, device, rewrites, first_run,
                    store, run >>

\* get_navigation_from_response(response_message)? fails in login: the
\* response to LOGIN is no navigation tree.
login_fails ==
    /\ pc \in {"tap_login", "block_login"}
    /\ script = << >> /\ ~awaiting
    /\ pc' = "failed"
    /\ conn' = "closed"
    /\ device' = DeviceDisconnected(device)
    /\ hist' = Failed(hist)
    /\ UNCHANGED << driver, script, awaiting, sent, received, navigation,
                    config, spot_prices, content, rewrites, first_run, store,
                    run >>

\* login returned the navigation; jitter; call of the tap water function.
tap_logged_in ==
    /\ pc = "tap_login"
    /\ script = << >> /\ ~awaiting
    /\ navigation' = DeviceNavigation
    /\ \E draw \in JitterDraws(config, run.best_spot_prices) :
        LET best_spot_prices ==
                add_jitter_to_spot_prices(config, run.best_spot_prices, draw)
        IN  /\ run' = [run EXCEPT !.best_spot_prices = best_spot_prices]
            /\ spot_prices' = best_spot_prices
    /\ pc' = "tap_schedule"
    /\ UNCHANGED << driver, script, awaiting, sent, received, conn, config,
                    content, device, rewrites, first_run, store, hist >>

\* Mutant: the new state is persisted before the toggle and the temperature.
plan_toggle_persists_first ==
    /\ driver = "plan"
    /\ pc = "tap_sets"
    /\ script = << >> /\ ~awaiting
    /\ IF \/ run.desinfection_desired /\ ~run.current_desinfection_enabled
          \/ ~run.desinfection_desired /\ run.current_desinfection_enabled
       THEN /\ script' = toggle_continuous_desinfection(navigation)
            /\ hist' = [hist EXCEPT !.toggles = @ + 1,
                                    !.done = @ \cup {"schedule"}]
       ELSE /\ script' = << >>
            /\ hist' = [hist EXCEPT !.done = @ \cup {"schedule"}]
    /\ store' = << State(run.desinfection_desired,
                         IF run.desinfection_desired
                         THEN last(run.best_spot_prices).till
                         ELSE run.desinfection_finished_at,
                         run.best_spot_prices) >>
    /\ pc' = "toggle"
    /\ UNCHANGED << driver, awaiting, sent, received, conn, navigation, config,
                    spot_prices, content, device, rewrites, first_run, run >>

\* Mutant: the macro runs whenever desinfection is desired, whatever the
\* persisted flag says.
plan_toggle_whenever_desired ==
    /\ driver = "plan"
    /\ pc = "tap_sets"
    /\ script = << >> /\ ~awaiting
    /\ IF run.desinfection_desired
       THEN /\ script' = toggle_continuous_desinfection(navigation)
            /\ hist' = [hist EXCEPT !.toggles = @ + 1,
                                    !.done = @ \cup {"schedule"}]
       ELSE /\ script' = << >>
            /\ hist' = [hist EXCEPT !.done = @ \cup {"schedule"}]
    /\ pc' = "toggle"
    /\ UNCHANGED << driver, awaiting, sent, received, conn, navigation, config,
                    spot_prices, content, device, rewrites, first_run, store, run >>

\* Lines 135-145: the tap water function returned Ok; toggle if needed.
plan_toggle ==
    /\ driver = "plan"
    /\ pc = "tap_sets"
    /\ script = << >> /\ ~awaiting
    /\ IF \/ run.desinfection_desired /\ ~run.current_desinfection_enabled
          \/ ~run.desinfection_desired /\ run.current_desinfection_enabled
       THEN /\ script' = toggle_continuous_desinfection(navigation)
            /\ hist' = [hist EXCEPT !.toggles = @ + 1,
                                    !.done = @ \cup {"schedule"}]
       ELSE /\ script' = << >>
            /\ hist' = [hist EXCEPT !.done = @ \cup {"schedule"}]
    /\ pc' = "toggle"
    /\ UNCHANGED << driver, awaiting, sent, received, conn, navigation, config,
                    spot_prices, content, device, rewrites, first_run, store, run >>

\* Lines 147-158 and 323-324: the call of set_tap_water_temperature.
plan_set_temperature ==
    /\ pc = "toggle"
    /\ script = << >> /\ ~awaiting
    /\ script' = NavigateSteps(navigation, << "Informatie", "Temperaturen" >>)
    /\ pc' = "temp_read"
    /\ hist' = [hist EXCEPT !.done = @ \cup {"toggle"}]
    /\ UNCHANGED << driver, awaiting, sent, received, conn, navigation, config,
                    spot_prices, content, device, rewrites, first_run, store, run >>

\* Mutant: the macro runs even when the setpoint is already right.
set_tap_water_temperature_compare_always_adjusts ==
    /\ pc = "temp_read"
    /\ script = << >> /\ ~awaiting
    /\ LET value == get_item_from_response("Tapwater ingesteld",
                                           Temperaturen(device))
           desired_tap_water_temperature ==
               IF run.desinfection_desired THEN MAXIMUM_TAP_WATER_TEMPERATURE
               ELSE config.desired_tap_water_temperature
       IN  script' = IF ~value.ok THEN << ErrStep >>
                     ELSE AdjustTemperature(navigation, value.value,
                                            desired_tap_water_temperature)
    /\ pc' = "temp_adjust"
    /\ UNCHANGED << driver, awaiting, sent, received, conn, navigation, config,
                    spot_prices, content, device, rewrites, first_run, store,
                    run, hist >>

\* Mutant: the setpoint is always driven to the desinfection temperature.
set_tap_water_temperature_compare_always_maximum ==
    /\ pc = "temp_read"
    /\ script = << >> /\ ~awaiting
    /\ LET value == get_item_from_response("Tapwater ingesteld",
                                           Temperaturen(device))
           desired_tap_water_temperature == MAXIMUM_TAP_WATER_TEMPERATURE
       IN  script' = IF ~value.ok THEN << ErrStep >>
                     ELSE IF value.value # desired_tap_water_temperature
                     THEN AdjustTemperature(navigation, value.value,
                                            desired_tap_water_temperature)
                     ELSE << >>
    /\ pc' = "temp_adjust"
    /\ UNCHANGED << driver, awaiting, sent, received, conn, navigation, config,
                    spot_prices, content, device, rewrites, first_run, store,
                    run, hist >>

\* Lines 326-395: compare "Tapwater ingesteld" with the desired temperature.
set_tap_water_temperature_compare ==
    /\ pc = "temp_read"
    /\ script = << >> /\ ~awaiting
    /\ LET value == get_item_from_response("Tapwater ingesteld",
                                           Temperaturen(device))
           desired_tap_water_temperature ==
               IF run.desinfection_desired THEN MAXIMUM_TAP_WATER_TEMPERATURE
               ELSE config.desired_tap_water_temperature
       IN  script' = IF ~value.ok THEN << ErrStep >>
                     ELSE IF value.value # desired_tap_water_temperature
                     THEN AdjustTemperature(navigation, value.value,
                                            desired_tap_water_temperature)
                     ELSE << >>
    /\ pc' = "temp_adjust"
    /\ UNCHANGED << driver, awaiting, sent, received, conn, navigation, config,
                    spot_prices, content, device, rewrites, first_run, store,
                    run, hist >>

\* Mutant: the finished-at is advanced to the end of the window by every
\* run.
plan_store_state_always_advances ==
    /\ pc = "temp_adjust"
    /\ script = << >> /\ ~awaiting
    /\ store' = << State(run.desinfection_desired,
                         last(run.best_spot_prices).till,
                         run.best_spot_prices) >>
    /\ hist' = [hist EXCEPT !.stores = @ + 1, !.done = @ \cup {"temperature"}]
    /\ conn' = "closed"
    /\ device' = DeviceDisconnected(device)
    /\ pc' = "block_plan"
    /\ UNCHANGED << driver, script, awaiting, sent, received, navigation, config,
                    spot_prices, content, rewrites, first_run, run >>

\* Mutant: the reader and writer of the tap water session outlive the block.
plan_store_state_keeps_connection ==
    /\ pc = "temp_adjust"
    /\ script = << >> /\ ~awaiting
    /\ store' = << State(run.desinfection_desired,
                         IF run.desinfection_desired
                         THEN last(run.best_spot_prices).till
                         ELSE run.desinfection_finished_at,
                         run.best_spot_prices) >>
    /\ hist' = [hist EXCEPT !.stores = @ + 1, !.done = @ \cup {"temperature"}]
    /\ pc' = "block_plan"
    /\ UNCHANGED << driver, script, awaiting, sent, received, navigation, config,
                    spot_prices, content, rewrites, first_run, run, conn, device >>

\* Lines 160-173: set_tap_water_temperature returned Ok; store the state.
plan_store_state ==
    /\ pc = "temp_adjust"
    /\ script = << >> /\ ~awaiting
    /\ store' = << State(run.desinfection_desired,
                         IF run.desinfection_desired
                         THEN last(run.best_spot_prices).till
                         ELSE run.desinfection_finished_at,
                         run.best_spot_prices) >>
    /\ hist' = [hist EXCEPT !.stores = @ + 1, !.done = @ \cup {"temperature"}]
    /\ conn' = "closed"
    /\ device' = DeviceDisconnected(device)
    /\ pc' = "block_plan"
    /\ UNCHANGED << driver, script, awaiting, sent, received, navigation, config,
                    spot_prices, content, rewrites, first_run, run >>

\* store_state(..).await? returns Err: the configmap was not replaced.
plan_store_state_fails ==
    /\ pc = "temp_adjust"
    /\ script = << >> /\ ~awaiting
    /\ pc' = "failed"
    /\ conn' = "closed"
    /\ device' = DeviceDisconnected(device)
    /\ hist' = [Failed(hist) EXCEPT !.done = @ \cup {"temperature"}]
    /\ UNCHANGED << driver, script, awaiting, sent, received, navigation, config,
                    spot_prices, content, rewrites, first_run, store, run >>

\* Mutant: the blocking session is opened whatever the planner answered.
plan_block_connects_anyway ==
    /\ pc = "block_plan"
    /\ \E worst \in WorstAnswers :
        /\ run' = [run EXCEPT !.worst_spot_prices = worst]
        /\ pc' = "block_connect"
    /\ UNCHANGED << driver, script, awaiting, sent, received, conn, navigation,
                    config, spot_prices, content, device, rewrites, first_run,
                    store, hist >>

\* Lines 178-187: the worst window for heating.
plan_block ==
    /\ pc = "block_plan"
    /\ \E worst \in WorstAnswers :
        /\ run' = [run EXCEPT !.worst_spot_prices = worst]
        /\ pc' = IF worst # << >> THEN "block_connect" ELSE "done"
    /\ UNCHANGED << driver, script, awaiting, sent, received, conn, navigation,
                    config, spot_prices, content, device, rewrites, first_run,
                    store, hist >>

\* Mutant: the heating schedule is rewritten whatever the configuration says.
block_logged_in_always_rewrites ==
    /\ pc = "block_login"
    /\ script = << >> /\ ~awaiting
    /\ navigation' = DeviceNavigation
    /\ \E draw \in JitterDraws(config, run.worst_spot_prices) :
        LET worst_spot_prices ==
                add_jitter_to_spot_prices(config, run.worst_spot_prices, draw)
        IN  /\ run' = [run EXCEPT !.worst_spot_prices = worst_spot_prices]
            /\ spot_prices' = worst_spot_prices
    /\ pc' = "heat_schedule"
    /\ UNCHANGED << driver, script, awaiting, sent, received, config, content,
                    rewrites, first_run, store, hist, conn, device >>

\* Lines 204-217: login returned; jitter; the heating function if enabled.
block_logged_in ==
    /\ pc = "block_login"
    /\ script = << >> /\ ~awaiting
    /\ navigation' = DeviceNavigation
    /\ \E draw \in JitterDraws(config, run.worst_spot_prices) :
        LET worst_spot_prices ==
                add_jitter_to_spot_prices(config, run.worst_spot_prices, draw)
        IN  /\ run' = [run EXCEPT !.worst_spot_prices = worst_spot_prices]
            /\ spot_prices' = worst_spot_prices
    /\ IF config.enable_blocking_worst_heating_times
       THEN /\ pc' = "heat_schedule"
            /\ UNCHANGED << conn, device >>
       ELSE /\ pc' = "done"
            /\ conn' = "closed"
            /\ device' = DeviceDisconnected(device)
    /\ UNCHANGED << driver, script, awaiting, sent, received, config, content,
                    rewrites, first_run, store, hist >>

\* The heating function returned Ok; plan returns Ok(()).
plan_returns ==
    /\ driver = "plan"
    /\ pc = "heat_sets"
    /\ script = << >> /\ ~awaiting
    /\ pc' = "done"
    /\ conn' = "closed"
    /\ device' = DeviceDisconnected(device)
    /\ UNCHANGED << driver, script, awaiting, sent, received, navigation, config,
                    spot_prices, content, rewrites, first_run, store, run, hist >>

\* A configuration whose maxHoursSinceLastDesinfection is not above the
\* minimum.
InvalidHoursConfig ==
    [MkConfig(120, TRUE, 0, FALSE) EXCEPT !.max_hours_since_last_desinfection = 96]

\* Amsterdam summer time; with and without jitter and blocking; one
\* configuration whose heatpumpTimeZone does not parse and one whose hours
\* are invalid.
PlanConfigs ==
    {MkConfig(120, TRUE, j, b) : j \in {0, 1}, b \in BOOLEAN}
    \cup {MkConfig(120, FALSE, 0, TRUE), InvalidHoursConfig}

\* What the first run finds: no state and the setpoint at the configured
\* temperature, or the state of a desinfection that finished two days ago
\* (continuous desinfection switched off again) and a setpoint that was
\* lowered on the device.
PlanStarts ==
    {[store |-> << >>, device |-> MkDevice(5, TRUE, FALSE, 570)],
     [store |-> << State(FALSE, StartTime - 2 * 1440, << >>) >>,
      device |-> MkDevice(5, TRUE, FALSE, 560)]}

Init ==
    /\ driver = "plan"
    /\ pc = "idle"
    /\ script = << >>
    /\ awaiting = FALSE
    /\ sent = << >>
    /\ received = 0
    /\ conn = "closed"
    /\ navigation = << >>
    /\ config \in PlanConfigs
    /\ spot_prices = << >>
    /\ content = << >>
    /\ \E start \in PlanStarts :
          /\ store = start.store
          /\ device = start.device
          /\ hist = [NoHist EXCEPT !.store_before = start.store]
    /\ rewrites = 0
    /\ first_run = NoRun
    /\ run = NoLocals

Next ==
    \/ plan_start
    \/ tap_connect
    \/ block_connect
    \/ connect_fails
    \/ login_fails
    \/ tap_logged_in
    \/ tap_water_navigate
    \/ tap_water_parse
    \/ plan_toggle
    \/ plan_set_temperature
    \/ set_tap_water_temperature_compare
    \/ plan_store_state
    \/ plan_store_state_fails
    \/ plan_block
    \/ block_logged_in
    \/ heating_navigate
    \/ heating_parse
    \/ plan_returns
    \/ send
    \/ send_and_await_request
    \/ send_and_await_text
    \/ exchange_fails
    \/ local_error

Spec == Init /\ [][Next]_vars

----------------------------------------------------------------------------
\* Vocabulary of the schedule claims.  A rewrite has completed when the
\* schedule function has returned Ok to the test (pc = "returned"); `sent'
\* then holds exactly the messages of that rewrite.

TapWaterReturned == pc = "returned" /\ driver = "test_tap"

\* Minutes since midnight of the boundaries, in the heat pump time zone.
from_minutes == MinutesOfDay(first(spot_prices).from, config.heatpump_time_zone)

till_minutes == MinutesOfDay(last(spot_prices).till, config.heatpump_time_zone)

\* The Week screen the driver's schedule function reads and writes.
WeekPath == IF driver = "test_tap" THEN TapWaterWeek ELSE HeatingWeek

WeekSlots == IF driver = "test_tap" THEN device.tap ELSE device.heat

\* Positions in `sent' of the SET messages with a non-zero value.
NonZeroSets == {i \in 1..Len(sent) : sent[i].cmd = "SET" /\ sent[i].val # 0}

\* A SET of `id' to `v' was sent after the resets of a completed rewrite.
SetAfterResets(id, v) ==
    \E i \in (Len(content) + 2)..(Len(sent) - 1) : sent[i] = Msg("SET", id, v)

\* The staged form of the SET messages in a sequence of messages.
StagedSets(msgs) ==
    LET sets == SelectSeq(msgs, LAMBDA m : m.cmd = "SET")
    IN  [i \in 1..Len(sets) |-> [id |-> sets[i].arg, val |-> sets[i].val]]

\* The items with every raw value read as 0.
Zeroed(items) == [i \in 1..Len(items) |-> Slot(items[i].id, 0)]

Messages(steps) == [i \in 1..Len(steps) |-> steps[i].msg]

----------------------------------------------------------------------------
\* C4: a completed schedule rewrite has sent, in this order, one GET of the
\* Week screen, SET <id> = 0 for every item of the screen in device order,
\* then only non-zero SETs, then one SAVE as the last message; the only text
\* frames it waited for are the replies to the GET and to the SAVE, and after
\* writing a SET the code never waits.
C4_RewriteMessageOrder ==
    /\ (awaiting => last(sent).cmd \in {"GET", "SAVE"})
    /\ pc = "returned" =>
          LET n == Len(content)
          IN  /\ Len(sent) >= n + 2
              /\ sent[1] = Msg("GET", get_navigation_item_id(navigation, WeekPath).id, 0)
              /\ \A i \in 1..n : sent[i + 1] = Msg("SET", content[i].id, 0)
              /\ \A i \in (n + 2)..(Len(sent) - 1) :
                    sent[i].cmd = "SET" /\ sent[i].val # 0
              /\ sent[Len(sent)] = Msg("SAVE", "", 1)
              /\ Cardinality({i \in 1..Len(sent) : sent[i].cmd = "SAVE"}) = 1
              /\ received = 2

\* A rewrite of a five-slot screen that sent two encoding SETs has returned.
C4_Witness ==
    /\ pc = "returned"
    /\ Len(content) = 5
    /\ Len(sent) = 9

\* C5 (as claimed): in the non-wrapping case of a completed tap water rewrite
\* (window non-empty, at least 2 slots, from_minutes <= till_minutes) the
\* first slot is set to 65536 * from_minutes iff from_minutes > 0 and the
\* last slot is set to till_minutes iff till_minutes > 0.
C5_BoundariesByMinutes ==
    (/\ TapWaterReturned
     /\ spot_prices # << >>
     /\ Len(content) >= 2
     /\ from_minutes <= till_minutes)
    => /\ SetAfterResets(first(content).id, 65536 * from_minutes) <=> from_minutes > 0
       /\ SetAfterResets(last(content).id, till_minutes) <=> till_minutes > 0

\* C6 (as claimed): the tap water rewrite takes the wrapping branch exactly
\* when from_minutes > till_minutes.
C6_BranchByMinutes ==
    (/\ driver = "test_tap"
     /\ pc \in {"tap_sets", "returned"}
     /\ spot_prices # << >>
     /\ Len(content) >= 2
     /\ config.heatpump_time_zone_valid)
    => (TapWaterBranch(spot_prices, config.heatpump_time_zone) = "wrapping"
          <=> from_minutes > till_minutes)

\* C7 (as claimed): in the wrapping case (from_minutes > till_minutes) of a
\* completed tap water rewrite exactly one non-zero SET is sent, the first
\* slot to till_minutes + 65536 * from_minutes.
C7_WrappingSingleSet ==
    (/\ TapWaterReturned
     /\ spot_prices # << >>
     /\ Len(content) >= 2
     /\ from_minutes > till_minutes)
    => /\ NonZeroSets = {Len(content) + 2}
       /\ sent[Len(content) + 2]
            = Msg("SET", first(content).id, till_minutes + 65536 * from_minutes)

\* The rewrite of [00:00, 10:00) on a device with 2 slots has completed.
C8_Case ==
    /\ TapWaterReturned
    /\ Len(content) = 2
    /\ spot_prices # << >>
    /\ from_minutes = 0
    /\ till_minutes = 600

\* C8 (as claimed): rewriting the tap water schedule for [00:00, 10:00) on a
\* device with 2 slots leaves slot 1 at 65536 * 600 = 39321600 and slot 2 at 0.
C8_SpecExample ==
    C8_Case => device.tap[1].raw = 39321600 /\ device.tap[2].raw = 0

\* C8 (amended): rewriting the tap water schedule for [00:00, 10:00) on a
\* device with 2 slots leaves slot 1 at 0 and slot 2 at 600.
C8_CodeExample ==
    C8_Case => device.tap[1].raw = 0 /\ device.tap[2].raw = 600

\* The case of C8 on a device whose two slots held other values before.
C8_Witness ==
    /\ C8_Case
    /\ content[1].raw = 600
    /\ content[2].raw = 11796480

\* C9: in both schedule functions every non-zero SET goes to the first or
\* the last item of the screen, at most two non-zero SETs are sent, and with
\* fewer than 2 items or an empty window a completed rewrite has sent only
\* the GET, the zero resets and the SAVE.
C9_OnlyFirstAndLast ==
    /\ \A i \in NonZeroSets :
          sent[i].arg \in {first(content).id, last(content).id}
    /\ Cardinality(NonZeroSets) <= 2
    /\ (pc = "returned" /\ (Len(content) < 2 \/ spot_prices = << >>))
          => /\ NonZeroSets = {}
             /\ Len(sent) = Len(content) + 2

\* A rewrite of a screen with inner slots has sent two non-zero SETs.
C9_Witness ==
    /\ pc = "returned"
    /\ Len(content) >= 3
    /\ Cardinality(NonZeroSets) = 2

\* C10: the messages of a completed rewrite are those the function sends when
\* every slot read 0 before, the slots hold afterwards what the SETs of the
\* rewrite alone determine, and a second rewrite with the same arguments
\* sends the same messages and leaves the same slot values as the first.
C10_Idempotent ==
    pc = "returned" =>
       /\ Tail(sent) = Messages(ScheduleScript(IF driver = "test_tap" THEN "tap" ELSE "heat",
                                               Zeroed(content), spot_prices, config))
       /\ WeekSlots = CommitSlots(Zeroed(content), StagedSets(sent))
       /\ rewrites >= 2 =>
             /\ sent = first_run.sent
             /\ device.tap = first_run.tap
             /\ device.heat = first_run.heat

\* A second rewrite has completed; the first one changed the slots and the
\* second one found them as the first had left them.
C10_Witness ==
    /\ pc = "returned"
    /\ rewrites = 2
    /\ spot_prices # << >>
    /\ Len(content) = 5
    /\ content = WeekSlots
    /\ content[2].raw # 11796480
    /\ NonZeroSets # {}

----------------------------------------------------------------------------
\* Vocabulary of the claims about plan().

\* The flag persisted before this run, false when no state exists.
PersistedFlag(st) == IF st = << >> THEN FALSE ELSE st[1].desinfection_enabled

\* The steps of the tap water session, from connecting to store_state.
TapSessionSteps ==
    {"tap_connect", "tap_login", "tap_week", "tap_sets", "toggle",
     "temp_read", "temp_adjust"}

Moves(msgs) == SelectSeq(msgs, LAMBDA m : m.cmd = "MOVE")

Awaited(msgs) == SelectSeq(msgs, LAMBDA m : m.cmd \in {"LOGIN", "GET", "SAVE", "MOVE"})

\* This run wants the other desinfection mode than the persisted one.
FlagDiffers == run.desinfection_desired # PersistedFlag(hist.store_before)

----------------------------------------------------------------------------
\* C1: a run writes the RunState at most once, and only after the schedule
\* rewrite, the toggle step and the temperature adjustment of its session
\* have returned (every awaited message of the session answered, the SAVE
\* and the setpoint read among them); a run that failed in its tap water
\* session has written nothing, and without a write the stored state is the
\* one the run started with.
C1_StoreOnlyAfterDeviceMutations ==
    /\ hist.stores <= 1
    /\ hist.stores = 1 => {"schedule", "toggle", "temperature"} \subseteq hist.done
    /\ (pc = "block_plan" /\ hist.stores = 1) =>
          /\ received = Len(Awaited(sent))
          /\ \E i \in 1..Len(sent) : sent[i].cmd = "SAVE"
          /\ \E i \in 1..Len(sent) :
                sent[i] = Msg("GET", get_navigation_item_id(navigation,
                                        << "Informatie", "Temperaturen" >>).id, 0)
          /\ FlagDiffers =>
                Len(Moves(sent)) >= Len(Moves(Messages(
                                        toggle_continuous_desinfection(navigation))))
    /\ (pc = "failed" /\ hist.failed_at \in TapSessionSteps) => hist.stores = 0
    /\ hist.stores = 0 => store = hist.store_before

\* A run whose toggle macro went through failed while reading the setpoint.
C1_Witness ==
    /\ pc = "failed"
    /\ hist.failed_at = "temp_read"
    /\ hist.toggles = 1
    /\ store = hist.store_before

\* C2 (as claimed): at the end of every run, failed or not, the stored
\* desinfection_enabled flag equals the continuous desinfection mode of the
\* device (they are equal before the first run).
C2_StoredFlagMatchesDevice ==
    pc \in {"done", "failed"} => PersistedFlag(store) = device.continuous

\* C3: a run executes the toggle macro at most once; once its schedule
\* rewrite has returned it has executed the macro exactly once if the
\* desired flag differs from the persisted flag (false when no state
\* exists) and not at all if they are equal, and when the toggle step is
\* over the MOVE messages sent so far are those of one macro, or none.
C3_ToggleOnceIffFlagDiffers ==
    /\ hist.toggles <= 1
    /\ "schedule" \in hist.done => hist.toggles = (IF FlagDiffers THEN 1 ELSE 0)
    /\ "schedule" \notin hist.done => hist.toggles = 0
    /\ (pc = "toggle" /\ script = << >> /\ ~awaiting) =>
          Moves(sent) = IF FlagDiffers
                        THEN Moves(Messages(toggle_continuous_desinfection(navigation)))
                        ELSE << >>

\* The toggle step of a run that switches desinfection off again is over.
C3_Witness ==
    /\ pc = "toggle" /\ script = << >> /\ ~awaiting
    /\ PersistedFlag(hist.store_before)
    /\ ~run.desinfection_desired
    /\ hist.toggles = 1

----------------------------------------------------------------------------
\* Vocabulary of the heating schedule claims.

\* The heating function has returned Ok after encoding a window.
HeatingEncoded ==
    /\ pc = "returned" /\ driver = "test_heat"
    /\ spot_prices # << >>
    /\ Len(content) >= 2

\* What a completed rewrite sent between the resets and SAVE.
EncodingSets == SubSeq(sent, Len(content) + 2, Len(sent) - 1)

\* C11 (as claimed): for the same boundaries and slot list the heating
\* rewrite sends the SET messages the tap water rewrite sends (same branch,
\* same slots, same packed values).
C11_HeatingSameAsTapWater ==
    HeatingEncoded =>
        EncodingSets = TapWaterSets(content, spot_prices, config.heatpump_time_zone)

\* C11 (amended): the heating rewrite selects its branch by the same test as
\* the tap water rewrite (clock hour of from > clock hour of till) but packs
\* the window itself: on the same-day branch one SET, the first slot to
\* from_minutes + 65536 * till_minutes; on the wrapping branch the first
\* slot to from_minutes and, when the clock hour of till is > 0, the last
\* slot to 65536 * till_minutes.
C11_HeatingPacksBlockedWindow ==
    HeatingEncoded =>
        LET tz == config.heatpump_time_zone
        IN  IF TapWaterBranch(spot_prices, tz) = "wrapping"
            THEN EncodingSets =
                   << Msg("SET", first(content).id, from_minutes) >>
                   \o (IF hour(last(spot_prices).till, tz) > 0
                       THEN << Msg("SET", last(content).id, 65536 * till_minutes) >>
                       ELSE << >>)
            ELSE EncodingSets =
                   << Msg("SET", first(content).id,
                          from_minutes + 65536 * till_minutes) >>

\* A heating rewrite of a window that wraps past midnight and ends after
\* 01:00 has returned.
C11_Witness ==
    /\ HeatingEncoded
    /\ TapWaterBranch(spot_prices, config.heatpump_time_zone) = "wrapping"
    /\ Len(EncodingSets) = 2

----------------------------------------------------------------------------
\* Vocabulary of the end-to-end claim.

\* The tap water session of this run has just stored its state.
TapSessionStored == pc = "block_plan" /\ hist.stores = 1

\* Desinfection is not due in this run: even a window that ends at the far
\* end of the 24 hours the planner looks ahead ends less than min_hours after
\* the last desinfection, and the run decided against it.
NotDue ==
    /\ ~run.desinfection_desired
    /\ num_hours(run.now + 24 * 60 - run.desinfection_finished_at)
         < config.min_hours_since_last_desinfection

\* The cheapest window of the run is 03:00 - 05:00 in heat pump time.
WindowThreeToFive ==
    /\ run.best_spot_prices # << >>
    /\ MinutesOfDay(first(run.best_spot_prices).from, config.heatpump_time_zone) = 180
    /\ MinutesOfDay(last(run.best_spot_prices).till, config.heatpump_time_zone) = 300

\* C12: with jitter 0, the cheapest window 03:00 - 05:00 in heat pump time,
\* desinfection not due and a persisted flag false, the tap water session of
\* a run on a 5-slot device has sent LOGIN, the GET of the Week screen, SET 0
\* for the 5 slots, the first slot to 65536 * 180 and the last to 300, SAVE
\* and the read of the setpoint; it has not run the toggle macro; the
\* setpoint is the configured temperature; and the stored flag is false.
C12_EndToEnd ==
    (/\ TapSessionStored
     /\ config.jitter_max_minutes = 0
     /\ hist.store_before # << >>
     /\ ~PersistedFlag(hist.store_before)
     /\ NotDue
     /\ WindowThreeToFive
     /\ Len(content) = 5)
    => /\ SubSeq(sent, 1, 11) =
            << Msg("LOGIN", "login_code", 0),
               Msg("GET", get_navigation_item_id(navigation, TapWaterWeek).id, 0) >>
            \o ResetSets(content)
            \o << Msg("SET", content[1].id, 65536 * 180),
                  Msg("SET", content[5].id, 300),
                  Msg("SAVE", "", 1),
                  Msg("GET", get_navigation_item_id(navigation,
                                << "Informatie", "Temperaturen" >>).id, 0) >>
       /\ \A i \in 12..Len(sent) : sent[i].cmd \in {"GET", "MOVE"}
       /\ [i \in 1..5 |-> device.tap[i].raw] = << 65536 * 180, 0, 0, 0, 300 >>
       /\ hist.toggles = 0
       /\ Len(Moves(sent)) <
            Len(Moves(Messages(toggle_continuous_desinfection(navigation))))
       /\ device.setpoint = config.desired_tap_water_temperature
       /\ store # << >>
       /\ ~PersistedFlag(store)

\* The first run of the scenario has stored its state after raising the
\* setpoint to the configured temperature.
C12_Witness ==
    /\ TapSessionStored
    /\ config.jitter_max_minutes = 0
    /\ hist.store_before # << >>
    /\ ~PersistedFlag(hist.store_before)
    /\ NotDue
    /\ WindowThreeToFive
    /\ Len(content) = 5
    /\ hist.runs = 1
    /\ Moves(sent) # << >>

\* C13 (as claimed): with max_hours <= min_hours every run fails on the
\* configuration before a connection is opened or a message is sent,
\* whatever the planner answers.
C13_InvalidHoursAlwaysFatal ==
    config.max_hours_since_last_desinfection
        <= config.min_hours_since_last_desinfection
    => /\ pc \in {"idle", "failed"}
       /\ pc = "failed" => hist.failed_at = "idle"
       /\ hist.opened = 0
       /\ sent = << >>
       /\ conn = "closed"

----------------------------------------------------------------------------
\* The decision functions called on their own, as the unit tests call
\* is_desinfection_desired: the arguments are in `run', the result is put
\* there when the function returns.

NoResult == [ok |-> FALSE, value |-> FALSE]

\* (min_hours, max_hours): two valid pairs, max = min and max < min.
DecideHours == {<< 2, 5 >>, << 96, 240 >>, << 5, 5 >>, << 5, 2 >>}

DecideConfigs ==
    {[MkConfig(0, TRUE, 0, TRUE) EXCEPT
          !.min_hours_since_last_desinfection = h[1],
          !.max_hours_since_last_desinfection = h[2]] : h \in DecideHours}

\* The end of the cheapest desinfection window.
PlannedFinishedAt == StartTime + 270

\* (market price, energy tax) of the entries of the cheapest window: total
\* above 0, below 0, exactly 0, and a negative market price under a
\* positive total.
LowestPrices ==
    {<< 50, 120 >>, << 100, 120 >>, << 300, 120 >>, << 0 - 300, 120 >>,
     << 0 - 120, 120 >>, << 0 - 10, 120 >>}

LowestWindows ==
    {<< >>}
    \cup {PricedWindow(PlannedFinishedAt - 150, PlannedFinishedAt, p[1], p[2]) :
            p \in LowestPrices}

\* Market prices of the entries of the most expensive window.
HighestWindows ==
    {PricedWindow(StartTime + 1020, StartTime + 1170, m, 120) :
        m \in {300, 225, 100, 0 - 10}}

\* Whole hours between the last desinfection and the end of the window,
\* around both pairs of DecideHours.
ElapsedHours == (0..7) \cup {95, 96, 97, 168, 239, 240, 241}

\* desinfection_finished_at: on the hour and half an hour earlier, and one
\* that lies after the end of the window.
FinishedAts ==
    {PlannedFinishedAt - 60 * e - x : e \in ElapsedHours, x \in {0, 30}}
    \cup {PlannedFinishedAt + 90}

\* The function is called again with a last desinfection this much longer
\* ago.
LaterHours == {1, 2, 3, 72, 144}

DecideArgs ==
    {[desinfection_finished_at |-> f, lowest |-> l, highest |-> h,
      result |-> NoResult, earlier |-> NoResult] :
        f \in FinishedAts, l \in LowestWindows, h \in HighestWindows}

\* A desinfection window that starts exactly 12 hours after now.
TwelveHoursAhead == PricedWindow(StartTime + 720, StartTime + 870, 50, 120)

SelectArgs ==
    {[now |-> StartTime, desinfection_finished_at |-> StartTime - 1440 * d,
      heating |-> h, desinfection |-> l, highest |-> HighestAnswer,
      result |-> [ok |-> FALSE, spot_prices |-> << >>, desired |-> FALSE]] :
        d \in {2, 7, 11}, h \in HeatingAnswers,
        l \in DesinfectionAnswers \cup {TwelveHoursAhead}}

SelectConfigs ==
    {c \in DecideConfigs :
        c.min_hours_since_last_desinfection \in {96, 5}}

\* Two hourly entries at different prices with a gap between them.
GappedWindow ==
    << PricedSpotPrice(StartTime + 60, StartTime + 120, 100, 120),
       PricedSpotPrice(StartTime + 180, StartTime + 240, 80, 120) >>

JitterArgs ==
    {[spot_prices |-> sp, result |-> << >>] :
        sp \in {<< >>, Window(StartTime + 60, StartTime + 180), GappedWindow}}

JitterConfigs == {MkConfig(0, TRUE, j, TRUE) : j \in {0, 1, 2, 15}}

\* State files for read_state, each with what it is: missing, unreadable (a
\* directory, no permission, no UTF-8), an empty document, documents that
\* are no State (no flag, a flag that is no bool, a finished-at that is no
\* time stamp, the flag twice), and documents that are one.
LabelledFiles ==
    LET null == Scalar("null", FALSE, 0, << >>)
        text == Scalar("text", FALSE, 0, << >>)
        flag(b) == Entry("desinfectionEnabled", Scalar("bool", b, 0, << >>))
        at(t) == Entry("desinfectionFinishedAt", Scalar("time", FALSE, t, << >>))
        two_days_ago == StartTime - 2 * 1440
    IN  {[kind |-> "missing", file |-> StateFile(FALSE, FALSE, << >>)],
         [kind |-> "unreadable", file |-> StateFile(TRUE, FALSE, << >>)],
         [kind |-> "unreadable",
          file |-> StateFile(TRUE, FALSE, << flag(TRUE), at(two_days_ago) >>)],
         [kind |-> "no state", file |-> StateFile(TRUE, TRUE, << >>)],
         [kind |-> "no state",
          file |-> StateFile(TRUE, TRUE, << at(two_days_ago) >>)],
         [kind |-> "no state",
          file |-> StateFile(TRUE, TRUE,
                      << Entry("desinfectionEnabled", text), at(two_days_ago) >>)],
         [kind |-> "no state",
          file |-> StateFile(TRUE, TRUE,
                      << flag(TRUE), Entry("desinfectionFinishedAt", text) >>)],
         [kind |-> "no state",
          file |-> StateFile(TRUE, TRUE, << flag(TRUE), flag(FALSE) >>)],
         [kind |-> "no state",
          file |-> StateFile(TRUE, TRUE,
                      << Entry("desinfection_enabled", Scalar("bool", TRUE, 0, << >>)),
                         at(two_days_ago) >>)]}
    \cup {[kind |-> "state", file |-> StateFile(TRUE, TRUE, << flag(b) >> \o rest)] :
            b \in BOOLEAN,
            rest \in {<< >>, << at(two_days_ago) >>, << at(StartTime + 270) >>,
                      << Entry("desinfectionFinishedAt", null) >>,
                      << at(two_days_ago), Entry("plannedSpotPrices", null) >>,
                      << at(two_days_ago), Entry("comment", text) >>}}
    \cup {[kind |-> "state",
           file |-> MountedFile(<< State(b, StartTime + 270,
                                         Window(StartTime + 120, StartTime + 270)) >>)] :
            b \in BOOLEAN}

ReadArgs ==
    {[kind |-> f.kind, file |-> f.file, now |-> StartTime + 60 * h,
      result |-> [ok |-> FALSE, state |-> << >>],
      current_desinfection_enabled |-> FALSE,
      desinfection_finished_at |-> 0] :
        f \in LabelledFiles, h \in {0, 1, 30}}

InitFunctions ==
    /\ \/ driver = "decide" /\ config \in DecideConfigs /\ run \in DecideArgs
       \/ driver = "select" /\ config \in SelectConfigs /\ run \in SelectArgs
       \/ driver = "jitter" /\ config \in JitterConfigs /\ run \in JitterArgs
       \/ driver = "read" /\ config = MkConfig(120, TRUE, 0, FALSE) /\ run \in ReadArgs
    /\ pc = "call"
    /\ script = << >>
    /\ awaiting = FALSE
    /\ sent = << >>
    /\ received = 0
    /\ conn = "closed"
    /\ navigation = << >>
    /\ spot_prices = << >>
    /\ content = << >>
    /\ device = MkDevice(0, FALSE, FALSE, 570)
    /\ rewrites = 0
    /\ first_run = NoRun
    /\ store = << >>
    /\ hist = NoHist

Decide(finished_at) ==
    is_desinfection_desired(config.min_hours_since_last_desinfection,
                            config.max_hours_since_last_desinfection,
                            finished_at, run.lowest, run.highest)

is_desinfection_desired_call ==
    /\ driver = "decide" /\ pc = "call"
    /\ run' = [run EXCEPT !.result = Decide(run.desinfection_finished_at)]
    /\ pc' = "returned"
    /\ UNCHANGED << driver, script, awaiting, sent, received, conn, navigation,
                    config, spot_prices, content, device, rewrites, first_run,
                    store, hist >>

\* The same windows some hours further from the last desinfection.
is_desinfection_desired_later ==
    /\ driver = "decide" /\ pc = "returned"
    /\ \E d \in LaterHours :
        LET finished_at == run.desinfection_finished_at - 60 * d
        IN  run' = [run EXCEPT !.earlier = run.result,
                               !.desinfection_finished_at = finished_at,
                               !.result = Decide(finished_at)]
    /\ pc' = "later"
    /\ UNCHANGED << driver, script, awaiting, sent, received, conn, navigation,
                    config, spot_prices, content, device, rewrites, first_run,
                    store, hist >>

get_spot_prices_call ==
    /\ driver = "select" /\ pc = "call"
    /\ run' = [run EXCEPT !.result =
                  get_spot_prices_for_tapwater_heating_or_desinfection(
                      config,
                      [heating |-> run.heating, desinfection |-> run.desinfection,
                       highest |-> run.highest],
                      run.now, run.desinfection_finished_at)]
    /\ pc' = "returned"
    /\ UNCHANGED << driver, script, awaiting, sent, received, conn, navigation,
                    config, spot_prices, content, device, rewrites, first_run,
                    store, hist >>

add_jitter_call ==
    /\ driver = "jitter" /\ pc = "call"
    /\ \E draw \in JitterDraws(config, run.spot_prices) :
        run' = [run EXCEPT !.result =
                   add_jitter_to_spot_prices(config, run.spot_prices, draw)]
    /\ pc' = "returned"
    /\ UNCHANGED << driver, script, awaiting, sent, received, conn, navigation,
                    config, spot_prices, content, device, rewrites, first_run,
                    store, hist >>

\* plan, lines 72-93: read the state, then the two locals.
plan_read_state ==
    /\ driver = "read" /\ pc = "call"
    /\ LET state == read_state(run.file)
       IN  IF ~state.ok
           THEN /\ run' = [run EXCEPT !.result = state]
                /\ pc' = "failed"
           ELSE /\ run' = [run EXCEPT
                              !.result = state,
                              !.current_desinfection_enabled =
                                  current_desinfection_enabled(state.state),
                              !.desinfection_finished_at =
                                  desinfection_finished_at(state.state, run.now)]
                /\ pc' = "returned"
    /\ UNCHANGED << driver, script, awaiting, sent, received, conn, navigation,
                    config, spot_prices, content, device, rewrites, first_run,
                    store, hist >>

NextFunctions ==
    \/ is_desinfection_desired_call
    \/ is_desinfection_desired_later
    \/ get_spot_prices_call
    \/ add_jitter_call
    \/ plan_read_state

SpecFunctions == InitFunctions /\ [][NextFunctions]_vars

----------------------------------------------------------------------------
\* Vocabulary of the claims about is_desinfection_desired.

\* is_desinfection_desired was called with max_hours > min_hours and has
\* returned.
Decided ==
    /\ driver = "decide"
    /\ pc \in {"returned", "later"}
    /\ config.max_hours_since_last_desinfection
         > config.min_hours_since_last_desinfection

min_hours == config.min_hours_since_last_desinfection

max_hours == config.max_hours_since_last_desinfection

\* Whole hours between the last desinfection and the end of the window.
elapsed == num_hours(last(run.lowest).till - run.desinfection_finished_at)

\* The total price of the cheapest window, all components.
lowest_total == SumAllIn(run.lowest)

\* C14: with a non-empty lowest window whose total price (all four
\* components, summed over the window) is <= 0, is_desinfection_desired
\* returns true, whatever the elapsed hours.
C14_BelowZeroForces ==
    (Decided /\ run.lowest # << >> /\ lowest_total <= 0)
    => run.result = [ok |-> TRUE, value |-> TRUE]

\* It has returned true for a total price <= 0 less than min_hours after the
\* last desinfection.
C14_Witness ==
    /\ Decided
    /\ run.lowest # << >>
    /\ lowest_total <= 0
    /\ elapsed < min_hours
    /\ run.result.value

\* C15: with a lowest window of total price > 0 that ends less than
\* min_hours whole hours after the last desinfection, is_desinfection_desired
\* returns false.
C15_NeverBeforeMinHours ==
    (Decided /\ run.lowest # << >> /\ lowest_total > 0 /\ elapsed < min_hours)
    => run.result = [ok |-> TRUE, value |-> FALSE]

\* It has returned false one hour short of min_hours for a window whose
\* market prices are far below those of the most expensive window.
C15_Witness ==
    /\ Decided
    /\ run.lowest # << >>
    /\ lowest_total > 0
    /\ elapsed = min_hours - 1
    /\ 4 * SumMarket(run.lowest) < SumMarket(run.highest)
    /\ ~run.result.value

\* C16 (as claimed): with a non-empty lowest window of positive total price,
\* is_desinfection_desired returns true whenever elapsed >= max_hours.
C16_ForcedAtMaxHours ==
    (Decided /\ run.lowest # << >> /\ lowest_total > 0 /\ elapsed >= max_hours)
    => run.result = [ok |-> TRUE, value |-> TRUE]

\* C17 (as claimed): with a lowest window of positive total price, once
\* is_desinfection_desired has returned true it returns true for the same
\* windows at every later elapsed time.
C17_RampMonotonic ==
    (/\ Decided /\ pc = "later"
     /\ run.lowest # << >>
     /\ lowest_total > 0
     /\ run.earlier.value)
    => run.result.value

\* C18: for max_hours > min_hours is_desinfection_desired returns the
\* reference decision: false for an empty lowest window; else true for a
\* total price <= 0; else false for elapsed < min_hours; else true for
\* elapsed > max_hours; else true exactly when
\* sum market(lowest) < ((elapsed - min)^2 / (max - min)^2) * sum market(highest).
C18_ReferenceDecision ==
    Decided =>
       /\ run.result.ok
       /\ run.result.value <=>
            CASE run.lowest = << >> -> FALSE
              [] run.lowest # << >> /\ lowest_total <= 0 -> TRUE
              [] run.lowest # << >> /\ lowest_total > 0 /\ elapsed < min_hours -> FALSE
              [] run.lowest # << >> /\ lowest_total > 0 /\ elapsed > max_hours -> TRUE
              [] OTHER ->
                   SumMarket(run.lowest) * (max_hours - min_hours) * (max_hours - min_hours)
                     < (elapsed - min_hours) * (elapsed - min_hours)
                         * SumMarket(run.highest)

\* It has returned false inside the ramp where the two sides are equal.
C18_Witness ==
    /\ Decided
    /\ run.lowest # << >>
    /\ lowest_total > 0
    /\ elapsed > min_hours /\ elapsed < max_hours
    /\ SumMarket(run.lowest) * (max_hours - min_hours) * (max_hours - min_hours)
         = (elapsed - min_hours) * (elapsed - min_hours) * SumMarket(run.highest)
    /\ ~run.result.value

----------------------------------------------------------------------------
\* Vocabulary of the window selection claim.

Selected == driver = "select" /\ pc = "returned"

\* The cheapest desinfection window is empty or starts more than 12 hours
\* after now.
Deferred ==
    \/ run.desinfection = << >>
    \/ first(run.desinfection).from > run.now + 12 * 60

\* C19: if the cheapest desinfection window is empty or starts more than 12
\* hours after now, the run gets the heating window and false, without
\* is_desinfection_desired being evaluated (so also with invalid hours);
\* otherwise it gets the desinfection window and true when
\* is_desinfection_desired returns true, the heating window and false when
\* it returns false.
C19_WindowSelection ==
    Selected =>
        LET d == is_desinfection_desired(min_hours, max_hours,
                                         run.desinfection_finished_at,
                                         run.desinfection, run.highest)
        IN  /\ Deferred =>
                  run.result = [ok |-> TRUE, spot_prices |-> run.heating,
                                desired |-> FALSE]
            /\ (~Deferred /\ d.ok /\ d.value) =>
                  run.result = [ok |-> TRUE, spot_prices |-> run.desinfection,
                                desired |-> TRUE]
            /\ (~Deferred /\ d.ok /\ ~d.value) =>
                  run.result = [ok |-> TRUE, spot_prices |-> run.heating,
                                desired |-> FALSE]

\* A desinfection window that starts exactly 12 hours after now was chosen
\* over a non-empty heating window.
C19_Witness ==
    /\ Selected
    /\ run.desinfection # << >>
    /\ first(run.desinfection).from = run.now + 12 * 60
    /\ run.heating # << >>
    /\ run.result.desired
    /\ run.result.spot_prices = run.desinfection

----------------------------------------------------------------------------
\* Vocabulary of the jitter claim.

Jittered == driver = "jitter" /\ pc = "returned"

\* `out' is `in' with every from and till moved by s minutes, nothing else
\* changed.
ShiftedBy(in, out, s) ==
    /\ Len(out) = Len(in)
    /\ \A i \in 1..Len(in) :
          out[i] = [in[i] EXCEPT !.from = @ + s, !.till = @ + s]

\* C20: add_jitter_to_spot_prices returns the window with every from and
\* till moved by one common number of minutes s,
\* -jitter_max_minutes <= s < jitter_max_minutes, entry count and prices
\* unchanged; with jitter_max_minutes = 0 or an empty window it returns its
\* input.
C20_JitterCommonShift ==
    Jittered =>
        LET j == config.jitter_max_minutes
        IN  /\ (j = 0 \/ run.spot_prices = << >>) => run.result = run.spot_prices
            /\ (j > 0 /\ run.spot_prices # << >>) =>
                  \E s \in (0 - j)..(j - 1) :
                      ShiftedBy(run.spot_prices, run.result, s)

\* A window with a gap was moved by the largest shift forward.
C20_Witness ==
    /\ Jittered
    /\ config.jitter_max_minutes = 15
    /\ Len(run.spot_prices) = 2
    /\ run.spot_prices[2].from > run.spot_prices[1].till
    /\ ShiftedBy(run.spot_prices, run.result, 14)

----------------------------------------------------------------------------
\* The functions of a device session called on their own, on an open
\* connection: get_navigation_item_id, navigate_to.  Here a string is the
\* sequence of its characters, so that item_path.split(" > ") is computed.

Separator == << " ", ">", " " >>

\* str::split(" > "): the pieces between the separators, from the left; an
\* empty string gives one empty piece.
RECURSIVE SplitFrom(_, _)
SplitFrom(s, piece) ==
    IF s = << >> THEN << piece >>
    ELSE IF Len(s) >= Len(Separator) /\ SubSeq(s, 1, Len(Separator)) = Separator
         THEN << piece >> \o SplitFrom(SubSeq(s, Len(Separator) + 1, Len(s)), << >>)
         ELSE SplitFrom(Tail(s), Append(piece, Head(s)))

split(item_path) == SplitFrom(item_path, << >>)

\* format!("{} > {} > ..", ..): the path made of the given segments.
RECURSIVE Join(_)
Join(parts) ==
    IF Len(parts) = 1 THEN parts[1]
    ELSE parts[1] \o Separator \o Join(Tail(parts))

\* Item names: "a", "A", "b" and "a>b" (no blanks around the >).
ResolveNames == {<< "a" >>, << "A" >>, << "b" >>, << "a", ">", "b" >>}

\* Longest path in segments.
MaxSegments == 3

\* The paths: every path of up to MaxSegments names, the empty string, and
\* paths with an empty segment.
ResolvePaths ==
    {Join(parts) : parts \in UNION {[1..n -> ResolveNames] : n \in 1..MaxSegments}}
    \cup {<< >>, << "a" >> \o Separator, << "a" >> \o Separator \o Separator \o << "b" >>}

\* The trees, ids being strings of characters too: one with distinct names
\* among the children of every node; one
\* with two top-level items of the same name; one with two nested items of
\* the same name; one whose same-named items are leaves; and the empty tree.
ResolveTrees ==
    {<< NavItem(<< "1" >>, << "a" >>,
            << NavItem(<< "2" >>, << "b" >>, << NavItem(<< "3" >>, << "a" >>, << >>) >>),
               NavItem(<< "4" >>, << "A" >>, << >>) >>),
        NavItem(<< "5" >>, << "b" >>, << NavItem(<< "6" >>, << "a" >>, << >>) >>),
        NavItem(<< "7" >>, << "A" >>, << >>) >>,
     << NavItem(<< "1" >>, << "a" >>, << NavItem(<< "2" >>, << "b" >>, << >>) >>),
        NavItem(<< "3" >>, << "a" >>,
            << NavItem(<< "4" >>, << "b" >>, << >>),
               NavItem(<< "5" >>, << "A" >>, << >>) >>),
        NavItem(<< "6" >>, << "b" >>, << >>) >>,
     << NavItem(<< "1" >>, << "a" >>,
            << NavItem(<< "2" >>, << "b" >>, << NavItem(<< "4" >>, << "a" >>, << >>) >>),
               NavItem(<< "3" >>, << "b" >>, << NavItem(<< "6" >>, << "a" >>, << >>) >>) >>),
        NavItem(<< "5" >>, << "a", ">", "b" >>, << >>) >>,
     << NavItem(<< "1" >>, << "b" >>, << >>),
        NavItem(<< "2" >>, << "a" >>, << >>),
        NavItem(<< "3" >>, << "b" >>, << >>) >>,
     << >>}

NoId == [ok |-> FALSE, id |-> << >>]

ResolveArgs ==
    {[tree |-> t, item_path |-> p, result |-> NoId] :
        t \in ResolveTrees, p \in ResolvePaths}

\* navigation.get_navigation_item_id(item_path) returns.
get_navigation_item_id_call ==
    /\ driver = "resolve" /\ pc = "call"
    /\ run' = [run EXCEPT !.result =
                  get_navigation_item_id(run.tree, split(run.item_path))]
    /\ pc' = "returned"
    /\ UNCHANGED << driver, script, awaiting, sent, received, conn, navigation,
                    config, spot_prices, content, device, rewrites, first_run,
                    store, hist >>

\* navigate_to(receiver, sender, navigation, nav) is called.
navigate_to_call ==
    /\ driver = "navigate" /\ pc = "call"
    /\ script' = NavigateSteps(run.tree, split(run.item_path))
    /\ LET r == get_navigation_item_id(run.tree, split(run.item_path))
       IN  run' = [run EXCEPT !.result = IF r.ok THEN @ ELSE r]
    /\ pc' = "navigating"
    /\ UNCHANGED << driver, awaiting, sent, received, conn, navigation, config,
                    spot_prices, content, device, rewrites, first_run, store,
                    hist >>

\* navigate_to returns Ok(response_message).
navigate_to_returns ==
    /\ driver = "navigate" /\ pc = "navigating"
    /\ script = << >> /\ ~awaiting
    /\ run' = [run EXCEPT !.result = [ok |-> TRUE, id |-> sent[Len(sent)].arg]]
    /\ pc' = "returned"
    /\ UNCHANGED << driver, script, awaiting, sent, received, conn, navigation,
                    config, spot_prices, content, device, rewrites, first_run,
                    store, hist >>

----------------------------------------------------------------------------
\* send_and_await called on its own, frame by frame.

Frame(k, d) == [kind |-> k, data |-> d]

\* Most frames read by one call.
MaxFrames == 4

\* What the peer may deliver next: a text frame, a close frame with or
\* without a status, a ping, a pong or a binary frame.
PeerFrames ==
    {Frame("text", "r1"), Frame("text", "r2"), Frame("close", ""),
     Frame("close", "1000"), Frame("ping", "p1"), Frame("ping", "p2"),
     Frame("pong", "p1"), Frame("binary", "b1")}

NoText == [ok |-> FALSE, text |-> ""]

WireArgs ==
    {[message |-> m, written |-> << >>, seen |-> << >>, result |-> NoText] :
        m \in {Msg("LOGIN", "login_code", 0), Msg("MOVE", "", 6)}}

\* Mutant: a text frame does not end the wait.
match_message_text_ignored(frame) ==
    CASE frame.kind = "close" -> [return |-> << >>, reply |-> << Frame("close", "") >>]
      [] frame.kind = "ping" ->
            [return |-> << >>, reply |-> << Frame("pong", frame.data) >>]
      [] OTHER -> [return |-> << >>, reply |-> << >>]

\* Mutant: a ping is answered with an empty pong.
match_message_pong_without_payload(frame) ==
    CASE frame.kind = "text" -> [return |-> << frame.data >>, reply |-> << >>]
      [] frame.kind = "close" -> [return |-> << >>, reply |-> << Frame("close", "") >>]
      [] frame.kind = "ping" -> [return |-> << >>, reply |-> << Frame("pong", "") >>]
      [] OTHER -> [return |-> << >>, reply |-> << >>]

\* The match on the incoming message: what is returned (at most one text)
\* and what is written back.
match_message(frame) ==
    CASE frame.kind = "text" -> [return |-> << frame.data >>, reply |-> << >>]
      [] frame.kind = "close" -> [return |-> << >>, reply |-> << Frame("close", "") >>]
      [] frame.kind = "ping" ->
            [return |-> << >>, reply |-> << Frame("pong", frame.data) >>]
      [] OTHER -> [return |-> << >>, reply |-> << >>]

\* sender.send_message(&message)? succeeds.
send_and_await_writes ==
    /\ driver = "wire" /\ pc = "call"
    /\ run' = [run EXCEPT !.written = << Frame("text", run.message) >>]
    /\ pc' = "reading"
    /\ UNCHANGED << driver, script, awaiting, sent, received, conn, navigation,
                    config, spot_prices, content, device, rewrites, first_run,
                    store, hist >>

\* One turn of the loop over receiver.incoming_messages().
send_and_await_reads ==
    /\ driver = "wire" /\ pc = "reading"
    /\ Len(run.seen) < MaxFrames
    /\ \E frame \in PeerFrames :
        LET m == match_message(frame)
        IN  /\ run' = [run EXCEPT
                          !.seen = Append(@, frame),
                          !.written = @ \o m.reply,
                          !.result = IF m.return = << >> THEN @
                                     ELSE [ok |-> TRUE, text |-> m.return[1]]]
            /\ pc' = IF m.return = << >> THEN "reading" ELSE "returned"
    /\ UNCHANGED << driver, script, awaiting, sent, received, conn, navigation,
                    config, spot_prices, content, device, rewrites, first_run,
                    store, hist >>

\* A frame was read and the reply to it cannot be written: the `?' on
\* sender.send_message returns the error.
send_and_await_reply_fails ==
    /\ driver = "wire" /\ pc = "reading"
    /\ Len(run.seen) < MaxFrames
    /\ \E frame \in PeerFrames :
        /\ match_message(frame).reply # << >>
        /\ run' = [run EXCEPT !.seen = Append(@, frame)]
    /\ pc' = "failed"
    /\ conn' = "closed"
    /\ UNCHANGED << driver, script, awaiting, sent, received, navigation,
                    config, spot_prices, content, device, rewrites, first_run,
                    store, hist >>

\* The request cannot be written, or the incoming stream ends or errors:
\* `message?' returns the error.
send_and_await_fails ==
    /\ driver = "wire" /\ pc \in {"call", "reading"}
    /\ pc' = "failed"
    /\ conn' = "closed"
    /\ UNCHANGED << driver, script, awaiting, sent, received, navigation,
                    config, spot_prices, content, device, rewrites, first_run,
                    store, run, hist >>

----------------------------------------------------------------------------
\* get_item_from_response called on its own.

\* Numbers the device shows, in tenths.
ShownNumbers == {0 - 50, 0, 223, 570}

\* Unit suffixes: none and "°C".
Suffixes == {<< >>, << "°C" >>}

\* Values of a field: a number or the sentinel with a unit; "4.8 K"; an
\* integer, a number ending in a dot, one starting with a dot; and texts
\* that are no number.
ItemValues ==
    {Rendered(n) \o u : n \in ShownNumbers, u \in Suffixes}
    \cup {<< "-", "-", "-" >> \o u : u \in Suffixes}
    \cup {<< "4", ".", "8", " ", "K" >>,
          << "5", "7" >>, << "5", "7", "." >>, << ".", "5" >>,
          << >>, << "a" >>, << "." >>, << "-" >>, << "1", ".", "2", ".", "3" >>,
          << "-", "-", "5" >>}

ItemNames == {"Aanvoer", "Tapwater ingesteld"}

\* Most items of a response.
MaxItems == 2

Responses ==
    UNION {[1..n -> {ResponseItem(n2, v) : n2 \in ItemNames, v \in ItemValues}] :
              n \in 0..MaxItems}

ItemArgs ==
    {[item |-> i, response_message |-> r, result |-> [ok |-> FALSE, value |-> 0]] :
        i \in ItemNames \cup {"X"}, r \in Responses}

get_item_from_response_call ==
    /\ driver = "item" /\ pc = "call"
    /\ run' = [run EXCEPT !.result =
                  get_item_from_response(run.item, run.response_message)]
    /\ pc' = "returned"
    /\ UNCHANGED << driver, script, awaiting, sent, received, conn, navigation,
                    config, spot_prices, content, device, rewrites, first_run,
                    store, hist >>

----------------------------------------------------------------------------
\* move_right, move_left and click called on their own.

GestureArgs ==
    {[gesture |-> g, result |-> FALSE] : g \in {"move_right", "move_left", "click"}}

\* self.move_right(receiver, sender), .move_left(..) or .click(..) is called.
gesture_call ==
    /\ driver = "gesture" /\ pc = "call"
    /\ script' = CASE run.gesture = "move_right" -> move_right
                   [] run.gesture = "move_left" -> move_left
                   [] run.gesture = "click" -> click
    /\ pc' = "gesturing"
    /\ UNCHANGED << driver, awaiting, sent, received, conn, navigation, config,
                    spot_prices, content, device, rewrites, first_run, store,
                    run, hist >>

\* The gesture returns Ok(()).
gesture_returns ==
    /\ driver = "gesture" /\ pc = "gesturing"
    /\ script = << >> /\ ~awaiting
    /\ run' = [run EXCEPT !.result = TRUE]
    /\ pc' = "returned"
    /\ UNCHANGED << driver, script, awaiting, sent, received, conn, navigation,
                    config, spot_prices, content, device, rewrites, first_run,
                    store, hist >>

----------------------------------------------------------------------------
\* set_tap_water_temperature called on its own after a login, as
\* tests::set_tap_water_temperature does.

\* What the device has as setpoint: 56.0, 57.0, 57.5.
Setpoints == {560, 570, 575}

\* desired_tap_water_temperature: 50.0 as in the test, 56.5, 57.0, 57.3,
\* 57.5, 57.8.
Targets == {500, 565, 570, 573, 575, 578}

TemperatureConfigs ==
    {[MkConfig(120, TRUE, 0, TRUE) EXCEPT !.desired_tap_water_temperature = t] :
        t \in Targets}

\* The locals of plan() the call depends on, and the setpoint at the call.
TemperatureArgs ==
    {[desinfection_desired |-> d, value |-> v, result |-> FALSE] :
        d \in BOOLEAN, v \in Setpoints}

\* set_tap_water_temperature returns Ok(()).
set_tap_water_temperature_returns ==
    /\ driver = "temperature" /\ pc = "temp_adjust"
    /\ script = << >> /\ ~awaiting
    /\ run' = [run EXCEPT !.result = TRUE]
    /\ pc' = "returned"
    /\ UNCHANGED << driver, script, awaiting, sent, received, conn, navigation,
                    config, spot_prices, content, device, rewrites, first_run,
                    store, hist >>

InitSession ==
    /\ \/ /\ driver \in {"resolve", "navigate"} /\ run \in ResolveArgs
          /\ pc = "call"
          /\ config = MkConfig(120, TRUE, 0, TRUE)
          /\ device = MkDevice(0, FALSE, FALSE, 570)
       \/ /\ driver = "gesture" /\ run \in GestureArgs
          /\ pc = "call"
          /\ config = MkConfig(120, TRUE, 0, TRUE)
          /\ device = MkDevice(0, FALSE, FALSE, 570)
       \/ /\ driver = "item" /\ run \in ItemArgs
          /\ pc = "call"
          /\ config = MkConfig(120, TRUE, 0, TRUE)
          /\ device = MkDevice(0, FALSE, FALSE, 570)
       \/ /\ driver = "wire" /\ run \in WireArgs
          /\ pc = "call"
          /\ config = MkConfig(120, TRUE, 0, TRUE)
          /\ device = MkDevice(0, FALSE, FALSE, 570)
       \/ /\ driver = "temperature" /\ run \in TemperatureArgs
          /\ pc = "toggle"
          /\ config \in TemperatureConfigs
          /\ device = MkDevice(0, FALSE, FALSE, run.value)
    /\ script = << >>
    /\ awaiting = FALSE
    /\ sent = << >>
    /\ received = 0
    /\ conn = "test"
    /\ navigation = DeviceNavigation
    /\ spot_prices = << >>
    /\ content = << >>
    /\ rewrites = 0
    /\ first_run = NoRun
    /\ store = << >>
    /\ hist = NoHist

NextSession ==
    \/ get_navigation_item_id_call
    \/ navigate_to_call
    \/ navigate_to_returns
    \/ gesture_call
    \/ gesture_returns
    \/ get_item_from_response_call
    \/ plan_set_temperature
    \/ set_tap_water_temperature_compare
    \/ set_tap_water_temperature_returns
    \/ send_and_await_writes
    \/ send_and_await_reads
    \/ send_and_await_reply_fails
    \/ send_and_await_fails
    \/ send_and_await_request
    \/ send_and_await_text
    \/ exchange_fails
    \/ local_error

SpecSession == InitSession /\ [][NextSession]_vars

----------------------------------------------------------------------------
\* Vocabulary of the claims about path resolution.

Resolved == driver = "resolve" /\ pc = "returned"

\* The segments "S1 > ... > Sn" of the path of the call.
Segments == split(run.item_path)

\* Following, at each level, the first child whose name equals the segment
\* leads to a node for every segment, and the last of them has the id `id'.
RECURSIVE Resolves(_, _, _)
Resolves(items, segs, id) ==
    \E i \in 1..Len(items) :
        /\ items[i].name = Head(segs)
        /\ \A j \in 1..(i - 1) : items[j].name # Head(segs)
        /\ IF Len(segs) = 1 THEN items[i].id = id
           ELSE Resolves(items[i].items, Tail(segs), id)

\* All ids of the trees.
NodeIds == {<< "1" >>, << "2" >>, << "3" >>, << "4" >>, << "5" >>, << "6" >>, << "7" >>}

\* C21: for every path whose segments each match a child name at the
\* successive levels of the tree, get_navigation_item_id returns the id of
\* the node matched by the last segment, where at each level the first child
\* in list order whose name equals the segment exactly is the one followed.
C21_ResolvesToLastSegment ==
    Resolved =>
        \A id \in NodeIds :
            Resolves(run.tree, Segments, id) => run.result = [ok |-> TRUE, id |-> id]

\* A three-segment path was resolved through a node that has a later sibling
\* of the same name.
C21_Witness ==
    /\ Resolved
    /\ Len(Segments) = 3
    /\ \E i \in 1..Len(run.tree) :
          /\ run.tree[i].name = Segments[1]
          /\ \E k, l \in 1..Len(run.tree[i].items) :
                /\ k < l
                /\ run.tree[i].items[k].name = Segments[2]
                /\ run.tree[i].items[l].name = Segments[2]
    /\ run.result.ok
    /\ run.result.id = << "4" >>

\* Segment k is the first one without a matching child at its level.
RECURSIVE MissingAt(_, _, _)
MissingAt(items, segs, k) ==
    IF k = 1 THEN \A i \in 1..Len(items) : items[i].name # segs[1]
    ELSE \E i \in 1..Len(items) :
            /\ items[i].name = segs[1]
            /\ \A j \in 1..(i - 1) : items[j].name # segs[1]
            /\ MissingAt(items[i].items, Tail(segs), k - 1)

\* get_navigation_item_id has returned, to the test or to navigate_to.
ResolutionOver ==
    \/ Resolved
    \/ driver = "navigate" /\ pc # "call"

\* C22: for every path containing a segment with no matching child at its
\* level, get_navigation_item_id fails with an error naming the first such
\* segment, whatever the later segments are and without returning the id of
\* a matched prefix; navigate_to then sends no GET message.
C22_MissingSegmentFails ==
    driver \in {"resolve", "navigate"} =>
        \A k \in 1..Len(Segments) :
            MissingAt(run.tree, Segments, k) =>
                /\ ResolutionOver =>
                      /\ run.result = [ok |-> FALSE, id |-> Segments[k]]
                      /\ \A p \in ResolvePaths :
                            (/\ Len(split(p)) >= k
                             /\ SubSeq(split(p), 1, k) = SubSeq(Segments, 1, k))
                            => get_navigation_item_id(run.tree, split(p)) = run.result
                /\ driver = "navigate" =>
                      /\ sent = << >>
                      /\ pc \in {"call", "navigating", "failed"}

\* navigate_to failed on the second of three segments, the first of which
\* names an item with an id.
C22_Witness ==
    /\ driver = "navigate" /\ pc = "failed"
    /\ Len(Segments) = 3
    /\ MissingAt(run.tree, Segments, 2)
    /\ Segments[3] # Segments[2]
    /\ \E i \in 1..Len(run.tree) : run.tree[i].name = Segments[3]
    /\ sent = << >>

\* The trees that differ from `items' only in the order of the children of
\* some nodes.
RECURSIVE Reorderings(_)
Reorderings(items) ==
    IF items = << >> THEN {<< >>}
    ELSE LET n == Len(items)
             subs == [i \in 1..n |-> Reorderings(items[i].items)]
             choices == {g \in [1..n -> UNION {subs[i] : i \in 1..n}] :
                            \A i \in 1..n : g[i] \in subs[i]}
         IN  {[i \in 1..n |-> [items[f[i]] EXCEPT !.items = g[f[i]]]] :
                 f \in Permutations(1..n), g \in choices}

\* No two children of the same node have the same name.
RECURSIVE DistinctNames(_)
DistinctNames(items) ==
    \A i \in 1..Len(items) :
        /\ \A j \in 1..Len(items) : items[i].name = items[j].name => i = j
        /\ DistinctNames(items[i].items)

\* The result is the same for every order of the children.
OrderIndependent ==
    \A t \in Reorderings(run.tree) :
        get_navigation_item_id(t, Segments) = run.result

\* C23 as stated: for every navigation tree and path, permuting the order
\* of the children at any level does not change the result of
\* get_navigation_item_id.
C23_OrderIndependent == Resolved => OrderIndependent

\* C23, amended: for every navigation tree in which no two children of the
\* same node have the same name, and every path, permuting the order of the
\* children at any level does not change the result of
\* get_navigation_item_id (same id, or same failure).
C23_OrderIndependentDistinctNames ==
    (Resolved /\ DistinctNames(run.tree)) => OrderIndependent

\* A two-segment path was resolved through the second of three top-level
\* items of a tree without repeated names.
C23_Witness ==
    /\ Resolved
    /\ DistinctNames(run.tree)
    /\ Len(run.tree) = 3
    /\ Len(Segments) = 2
    /\ run.tree[2].name = Segments[1]
    /\ run.result.ok

----------------------------------------------------------------------------
\* Vocabulary of the claims about send_and_await.

\* send_and_await has been called and has written or tried to write.
Waited == driver = "wire" /\ pc # "call"

\* What the frames read so far ask for: a pong with its payload for every
\* ping, a close for every close.
RECURSIVE Answers(_)
Answers(frames) ==
    IF frames = << >> THEN << >>
    ELSE (IF Head(frames).kind = "ping"
          THEN << Frame("pong", Head(frames).data) >>
          ELSE IF Head(frames).kind = "close" THEN << Frame("close", "") >>
          ELSE << >>)
         \o Answers(Tail(frames))

IsPrefix(a, b) == Len(a) <= Len(b) /\ a = SubSeq(b, 1, Len(a))

\* C24: send_and_await sends exactly one request and returns the first text
\* frame received after it; ping, pong, binary and close frames received
\* before that text frame never satisfy the wait, each ping is answered with
\* a pong carrying the same payload and each peer close with a close, and no
\* other message is sent while waiting.
C24_FirstTextEndsWait ==
    Waited =>
        LET expected == << Frame("text", run.message) >> \o Answers(run.seen)
        IN  /\ pc \in {"reading", "returned"} => run.written = expected
            /\ pc = "failed" => IsPrefix(run.written, expected)
            /\ \A i \in 1..(Len(run.seen) - 1) : run.seen[i].kind # "text"
            /\ pc = "returned" =>
                  /\ run.seen # << >>
                  /\ last(run.seen).kind = "text"
                  /\ run.result = [ok |-> TRUE, text |-> last(run.seen).data]
            /\ pc # "returned" =>
                  /\ run.result = NoText
                  /\ \A i \in 1..Len(run.seen) : run.seen[i].kind # "text"

\* A text frame ended the wait after a ping, a close and a binary frame.
C24_Witness ==
    /\ driver = "wire" /\ pc = "returned"
    /\ Len(run.seen) = 4
    /\ run.seen[1] = Frame("ping", "p2")
    /\ run.seen[2].kind = "close"
    /\ run.seen[3].kind = "binary"
    /\ run.result.text = "r2"
    /\ Len(run.written) = 3

\* C25: if the connection closes (peer close frame or end of the incoming
\* stream) before a text frame appears, send_and_await terminates with a
\* failure and never returns a text value for that request.
C25_CloseBeforeTextFails ==
    Waited =>
        /\ pc = "failed" =>
              /\ run.result = NoText
              /\ \A i \in 1..Len(run.seen) : run.seen[i].kind # "text"
        /\ (\E i \in 1..Len(run.seen) : run.seen[i].kind = "close") =>
              /\ pc # "returned"
              /\ ~run.result.ok

\* C25, amended: if the incoming stream ends or fails before a text frame
\* appears, send_and_await terminates with a failure and never returns a
\* text value for that request.
C25_StreamEndBeforeTextFails ==
    (Waited /\ pc = "failed") =>
        /\ run.result = NoText
        /\ \A i \in 1..Len(run.seen) : run.seen[i].kind # "text"

\* The stream ended after a ping and a close had been read and answered.
C25_Witness ==
    /\ driver = "wire" /\ pc = "failed"
    /\ Len(run.seen) = 2
    /\ run.seen[1].kind = "ping"
    /\ run.seen[2].kind = "close"
    /\ Len(run.written) = 3

----------------------------------------------------------------------------
\* Vocabulary of the claim about the gestures.

\* The MOVE messages of the gesture of the call: the pulse, then the
\* confirmation of the cursor position.
GestureMessages ==
    << Msg("MOVE", "", CASE run.gesture = "move_right" -> 0
                         [] run.gesture = "move_left" -> 1
                         [] run.gesture = "click" -> 2),
       Msg("MOVE", "", 6) >>

\* C26: each gesture is exactly two awaited exchanges in this order:
\* move_right sends MOVE;0 then MOVE;6, move_left MOVE;1 then MOVE;6, click
\* MOVE;2 then MOVE;6; the second message is sent only after the text
\* response to the first was received, and if the first exchange fails the
\* second is not sent.
C26_GestureTwoExchanges ==
    driver = "gesture" =>
        /\ IsPrefix(sent, GestureMessages)
        /\ received <= Len(sent)
        /\ Len(sent) = 2 => received >= 1
        /\ pc = "returned" => sent = GestureMessages /\ received = 2
        /\ (pc = "failed" /\ received = 0) => Len(sent) <= 1

\* A click has returned.
C26_Witness ==
    /\ driver = "gesture" /\ pc = "returned"
    /\ run.gesture = "click"
    /\ sent = << Msg("MOVE", "", 2), Msg("MOVE", "", 6) >>
    /\ received = 2

----------------------------------------------------------------------------
\* Vocabulary of the claim about get_item_from_response.

ItemRead == driver = "item" /\ pc = "returned"

\* The named field: the first item of the response with the name.
NamedField ==
    LET named == {i \in 1..Len(run.response_message) :
                     run.response_message[i].name = run.item}
    IN  IF named = {} THEN << >>
        ELSE << run.response_message[CHOOSE i \in named : \A j \in named : i <= j] >>

\* C27: get_item_from_response returns the numeric value following the
\* named field with any trailing unit suffix removed, 0.0 when the value of
\* the field is the sentinel "---", and an error, never 0.0, when the named
\* field is absent from the response.
C27_ItemValue ==
    ItemRead =>
        /\ NamedField = << >> => ~run.result.ok
        /\ NamedField # << >> =>
              \A u \in Suffixes :
                  /\ \A n \in ShownNumbers :
                        NamedField[1].value = Rendered(n) \o u
                        => run.result = [ok |-> TRUE, value |-> n]
                  /\ NamedField[1].value = << "-", "-", "-" >> \o u
                        => run.result = [ok |-> TRUE, value |-> 0]

\* 22.3 was read from "22.3°C" in a response whose other item holds the
\* sentinel.
C27_Witness ==
    /\ ItemRead
    /\ Len(run.response_message) = 2
    /\ run.response_message[1].name # run.item
    /\ run.response_message[1].value = << "-", "-", "-" >>
    /\ run.response_message[2].value = << "2", "2", ".", "3", "°C" >>
    /\ run.result = [ok |-> TRUE, value |-> 223]

----------------------------------------------------------------------------
\* Vocabulary of the claims about set_tap_water_temperature.

\* The target of the call.
Target ==
    IF run.desinfection_desired THEN MAXIMUM_TAP_WATER_TEMPERATURE
    ELSE config.desired_tap_water_temperature

TemperaturenGet ==
    Msg("GET", get_navigation_item_id(DeviceNavigation,
                                      << "Informatie", "Temperaturen" >>).id, 0)

\* MOVE;0 and MOVE;1.
Directional(msgs) == SelectSeq(msgs, LAMBDA m : m.cmd = "MOVE" /\ m.val \in {0, 1})

Clicks(msgs) == SelectSeq(msgs, LAMBDA m : m.cmd = "MOVE" /\ m.val = 2)

\* C28: set_tap_water_temperature is a no-op when the setpoint read from
\* the device equals the target: it performs only the single GET of
\* "Informatie > Temperaturen" and sends no MOVE message; when they differ
\* it sends directional pulses and clicks.
C28_NoOpWhenEqual ==
    driver = "temperature" =>
        /\ run.value = Target =>
              /\ IsPrefix(sent, << TemperaturenGet >>)
              /\ pc = "returned" => sent = << TemperaturenGet >>
        /\ (run.value # Target /\ pc = "returned") =>
              /\ sent[1] = TemperaturenGet
              /\ Directional(sent) # << >>
              /\ Clicks(sent) # << >>

\* The call returned after one GET with the setpoint at the target 57.5.
C28_Witness ==
    /\ driver = "temperature" /\ pc = "returned"
    /\ run.value = 575 /\ Target = 575
    /\ sent = << TemperaturenGet >>
    /\ received = 1

\* Messages of the macro before the first pulse on the setpoint (two GETs,
\* to menu, to warmwater, to temperatuur, to gewenste waarde) and after the
\* last one (confirm, apply, back to home).
MacroHead == 18

MacroTail == 10

\* The pulses on the setpoint, with their confirmations.
SetpointPulses == SubSeq(sent, MacroHead + 1, Len(sent) - MacroTail)

\* C29: when the current setpoint differs from the target,
\* set_tap_water_temperature issues exactly ceil(|target - current| / 0.5)
\* directional pulses (all move_right if target > current, all move_left if
\* target < current) followed by one confirm click, for all current and
\* target values, differences that are no multiple of 0.5 included.
C29_CeilingPulses ==
    (driver = "temperature" /\ pc = "returned" /\ run.value # Target) =>
        LET diff == IF Target > run.value THEN Target - run.value
                    ELSE run.value - Target
            pulse == IF Target > run.value THEN move_right ELSE move_left
            pulses == SetpointPulses
            ceiling == (diff + 4) \div 5
        IN  /\ Len(pulses) = 2 * ceiling
            /\ \A i \in 1..Len(pulses) :
                  pulses[i] = pulse[IF i % 2 = 1 THEN 1 ELSE 2].msg
            /\ SubSeq(sent, Len(sent) - MacroTail + 1, Len(sent) - MacroTail + 2)
                  = << click[1].msg, click[2].msg >>

----------------------------------------------------------------------------
\* Vocabulary of the claim about login.

Login == Msg("LOGIN", "login_code", 0)

\* plan() is in login, between the write of LOGIN and the navigation.
InLogin == pc \in {"tap_login", "block_login"}

\* plan() failed in login.
LoginFailed == pc = "failed" /\ hist.failed_at \in {"tap_login", "block_login"}

\* C30: on every connection opened by a run, the first message sent is
\* LOGIN;<code>, exactly one LOGIN is sent on that connection, and no GET,
\* SET, MOVE or SAVE message is sent before the text response to LOGIN has
\* been received and parsed into a navigation tree; if login fails, no
\* further message is sent on that connection.
C30_LoginFirst ==
    /\ sent # << >> => sent[1] = Login
    /\ \A i \in 2..Len(sent) : sent[i].cmd # "LOGIN"
    /\ Len(sent) >= 2 => received >= 1 /\ navigation # << >>
    /\ (InLogin \/ LoginFailed) => Len(sent) <= 1
    /\ (conn # "closed" /\ ~InLogin) => sent # << >>

\* The second connection of a run has logged in and sent its schedule.
C30_Witness ==
    /\ driver = "plan"
    /\ conn = "block"
    /\ hist.opened = 2
    /\ pc = "heat_sets"
    /\ sent[1] = Login
    /\ sent[2].cmd = "GET"
    /\ Len(sent) > 3

----------------------------------------------------------------------------
\* Vocabulary of the claims about the two sessions of a run.

\* No exchange is under way: every send_and_await has returned.
Quiet == script = << >> /\ ~awaiting

\* C31: a run opens at most two device connections, one after the other:
\* the blocking connection is opened only after every exchange of the tap
\* water session and its RunState write have completed, and no connection
\* is opened while another one of the run is open.
C31_SequentialSessions ==
    driver = "plan" =>
        /\ hist.opened <= 2
        /\ pc \in {"tap_connect", "block_connect"} => conn = "closed" /\ Quiet
        /\ conn = "tap" => hist.opened = 1
        /\ conn = "block" => hist.opened = (IF run.best_spot_prices # << >> THEN 2 ELSE 1)
        /\ (pc = "block_connect" /\ hist.opened = 1) =>
              /\ hist.stores = 1
              /\ received = Len(Awaited(sent))
              /\ {"schedule", "toggle", "temperature"} \subseteq hist.done
        /\ (conn = "block" /\ run.best_spot_prices # << >>) => hist.stores = 1

\* The second connection of a run is open, after the tap water session
\* wrote its state.
C31_Witness ==
    /\ driver = "plan"
    /\ conn = "block"
    /\ hist.opened = 2
    /\ hist.stores = 1
    /\ sent # << >>

\* plan() has returned an error.
FailedRun == driver = "plan" /\ pc = "failed"

\* A step of the current call of plan(), not the start of the next one.
SameRun == hist'.runs = hist.runs

\* C32: the run fails fast with no internal retry: when a step fails
\* (connect, login, an awaited exchange, a send, store_state), plan()
\* returns the error at once; the failing step sends and stores nothing, a
\* wait ends only with the reply or with the failure of the run, nothing of
\* the run is executed after the failure, and a failure in the tap water
\* phase leaves the blocking session unopened.
C32_FailFast ==
    /\ [](FailedRun => Quiet /\ conn = "closed")
    /\ []((FailedRun /\ hist.failed_at \in TapSessionSteps) =>
              /\ hist.opened <= 1
              /\ hist.stores = 0
              /\ run.worst_spot_prices = << >>)
    /\ [][driver = "plan" =>
              /\ pc = "failed" => hist'.runs = hist.runs + 1
              /\ (pc' = "failed" /\ SameRun) =>
                    sent' = sent /\ store' = store /\ received' = received
              /\ (awaiting /\ ~awaiting') => script' = Tail(script) \/ pc' = "failed"
              /\ (SameRun /\ sent' # sent /\ sent' # << >>) =>
                    /\ sent' = Append(sent, Head(script).msg)
                    /\ awaiting' \/ script' = Tail(script)]_vars

\* The SAVE of the tap water schedule got no reply: the run has failed after
\* sending the whole rewrite.
C32_Witness ==
    /\ FailedRun
    /\ hist.failed_at = "tap_sets"
    /\ sent # << >>
    /\ last(sent).cmd = "SAVE"
    /\ received = Len(Awaited(sent)) - 1

\* C33: if the chosen tap water window is empty, the tap water phase opens
\* no connection, sends no command and writes no RunState (the stored state
\* and the tap water schedule of the device stay as they are), and the
\* blocking phase still runs; if the worst-price window is empty, the
\* blocking phase opens no connection and sends no command.
C33_EmptyWindowSkipsPhase ==
    /\ []((driver = "plan" /\ conn = "tap") => run.best_spot_prices # << >>)
    /\ []((driver = "plan" /\ conn = "block") => run.worst_spot_prices # << >>)
    /\ []((driver = "plan" /\ hist.runs > 0 /\ run.best_spot_prices = << >>) =>
              /\ hist.stores = 0
              /\ store = hist.store_before
              /\ hist.opened <= 1)
    /\ []((driver = "plan" /\ pc = "done" /\ run.worst_spot_prices = << >>) =>
              /\ conn = "closed"
              /\ hist.opened = (IF run.best_spot_prices # << >> THEN 1 ELSE 0))
    /\ [][driver = "plan" =>
              /\ run'.best_spot_prices = << >> =>
                    /\ device'.tap = device.tap
                    /\ store' = store
                    /\ (sent' # sent /\ sent' # << >>) => conn' = "block"
              /\ (hist'.runs = hist.runs + 1 /\ run'.best_spot_prices = << >>
                    /\ pc' # "failed") => pc' = "block_plan" /\ conn' = "closed"
              /\ (pc = "block_plan" /\ run'.worst_spot_prices = << >>) =>
                    pc' = "done" /\ conn' = "closed" /\ sent' = sent]_vars

\* A run without a tap water window is rewriting the heating schedule.
C33_Witness ==
    /\ driver = "plan"
    /\ hist.runs > 0
    /\ run.best_spot_prices = << >>
    /\ conn = "block"
    /\ pc = "heat_sets"
    /\ last(sent).cmd = "SET"
    /\ hist.stores = 0

----------------------------------------------------------------------------
\* Vocabulary of the claims about the persisted state.

\* The finished-at a run starts from: the stored one, or seven days before
\* now when none is stored.
ReadFinishedAt ==
    IF hist.store_before = << >> THEN run.now - 7 * 1440
    ELSE IF hist.store_before[1].desinfection_finished_at = << >>
    THEN run.now - 7 * 1440
    ELSE hist.store_before[1].desinfection_finished_at[1]

\* The tills the planner may have answered for a desinfection.
PlannedTills == {last(d).till : d \in DesinfectionAnswers \ {<< >>}}

\* The run has just persisted its state: the tap water session is over and
\* `spot_prices' still holds the window its schedule was written with.
Persisted == driver = "plan" /\ pc = "block_plan" /\ hist.stores = 1

\* C34: the state a successful tap water session persists has
\* disinfection_enabled equal to this run's decision, and
\* disinfection_finished_at equal to the till of the last entry of the
\* jittered chosen window if the run is disinfecting, and otherwise equal
\* to the value read at the start of the run (the stored one, or now - 7
\* days when none was stored); a run that is not disinfecting never
\* advances it.
C34_PersistedState ==
    /\ (driver = "plan" /\ hist.stores = 1) =>
          /\ store # << >>
          /\ store[1].desinfection_enabled = run.desinfection_desired
          /\ store[1].desinfection_finished_at =
                << IF run.desinfection_desired THEN last(run.best_spot_prices).till
                   ELSE ReadFinishedAt >>
    /\ Persisted =>
          /\ run.best_spot_prices = spot_prices
          /\ run.desinfection_desired =>
                \E t \in PlannedTills :
                    LET shift == store[1].desinfection_finished_at[1] - t
                    IN  /\ 0 - config.jitter_max_minutes <= shift
                        /\ shift <= config.jitter_max_minutes
                        /\ config.jitter_max_minutes = 0 => shift = 0
    /\ (driver = "plan" /\ hist.runs > 0 /\ ~run.desinfection_desired
          /\ hist.store_before # << >>) =>
          store[1].desinfection_finished_at = hist.store_before[1].desinfection_finished_at

\* The second run does not disinfect and has persisted the finished-at that
\* the first, disinfecting run stored from its jittered window.
C34_Witness ==
    /\ Persisted
    /\ hist.runs = 2
    /\ ~run.desinfection_desired
    /\ hist.store_before # << >>
    /\ hist.store_before[1].desinfection_enabled
    /\ store[1].desinfection_finished_at = hist.store_before[1].desinfection_finished_at
    /\ store[1].desinfection_finished_at[1] \notin PlannedTills

----------------------------------------------------------------------------
\* Vocabulary of the claim about read_state.

\* plan() is past reading the state.
StateRead == driver = "read" /\ pc # "call"

\* C35: read_state returns "no prior state" (Ok(None)), never an error, when
\* the state file is missing, unreadable or cannot be parsed as a RunState;
\* the run then proceeds with disinfection_enabled = false and finished-at
\* = now - 7 days.
C35_NoStateIsNotAnError ==
    StateRead =>
        /\ pc = "returned"
        /\ run.result.ok
        /\ run.kind # "state" =>
              /\ run.result.state = << >>
              /\ run.current_desinfection_enabled = FALSE
              /\ run.desinfection_finished_at = run.now - 7 * 1440
        /\ run.kind = "state" => run.result.state # << >>

\* A file whose finished-at is no time stamp was read as no state, and the
\* run goes on from seven days before now.
C35_Witness ==
    /\ StateRead
    /\ pc = "returned"
    /\ run.kind = "no state"
    /\ Len(run.file.doc) = 2
    /\ run.file.doc[2].value.type = "text"
    /\ run.result = [ok |-> TRUE, state |-> << >>]
    /\ run.desinfection_finished_at = StartTime + 60 - 7 * 1440

----------------------------------------------------------------------------
\* C36: the worst-price window is used only if the block-worst-heating
\* feature is enabled: when enable_blocking_worst_heating_times is false, a
\* run sends no GET for the heating schedule, no SET and no SAVE in the
\* blocking phase, and the heating schedule of the device is not changed by
\* the run.
C36_BlockingOnlyIfEnabled ==
    /\ []((driver = "plan" /\ ~config.enable_blocking_worst_heating_times) =>
              /\ pc \notin {"heat_schedule", "heat_week", "heat_sets"}
              /\ conn = "block" => \A i \in 1..Len(sent) : sent[i] = Login)
    /\ [][(driver = "plan" /\ ~config.enable_blocking_worst_heating_times) =>
              device'.heat = device.heat]_vars

\* A run with the feature switched off has logged in on its blocking
\* connection and returned.
C36_Witness ==
    /\ driver = "plan"
    /\ ~config.enable_blocking_worst_heating_times
    /\ pc = "done"
    /\ hist.opened = 2
    /\ run.worst_spot_prices # << >>
    /\ sent = << Login >>
    /\ received = 1
    /\ \E i \in 1..Len(device.heat) : device.heat[i].raw # 0

----------------------------------------------------------------------------
\* plan() and send_and_await against a device that answers.

----------------------------------------------------------------------------
\* A session against a device whose text frames are followed one by one.
\* The frames the device has written and the client has not read yet are
\* run.inbox, in the order of the stream; a frame is named by the position
\* in `sent' of the message it answers.

\* What one tap water session sends over n slots: LOGIN, the GET of the Week
\* screen, the schedule, the GET of the temperatures and the setpoint macro.
SessionScript(n) ==
    << Step(Msg("LOGIN", "login_code", 0), TRUE, "none") >>
    \o NavigateSteps(DeviceNavigation, TapWaterWeek)
    \o ScheduleScript("tap", SlotList(TapSlotIds, n, FALSE),
                      Window(StartTime + 120, StartTime + 270),
                      MkConfig(120, TRUE, 0, TRUE))
    \o NavigateSteps(DeviceNavigation, << "Informatie", "Temperaturen" >>)
    \o AdjustTemperature(DeviceNavigation, 560, 570)

\* WebsocketClient::send on this session: the message is written and nothing
\* is read. A quiet device writes nothing back; a chatty one may.
replies_send ==
    /\ driver = "replies" /\ pc = "session"
    /\ run.script # << >> /\ ~run.awaiting
    /\ ~Head(run.script).await
    /\ sent' = Append(sent, Head(run.script).msg)
    /\ \E answers \in {FALSE, run.chatty} :
        run' = [run EXCEPT
                   !.script = Tail(@),
                   !.inbox = IF answers THEN Append(@, Len(sent) + 1) ELSE @,
                   !.answered = IF answers THEN @ \cup {Len(sent) + 1} ELSE @]
    /\ UNCHANGED << pc, driver, script, awaiting, received, conn, navigation,
                    config, spot_prices, content, device, rewrites, first_run,
                    store, hist >>

\* WebsocketClient::send_and_await on this session, the write: the device
\* writes one text frame in reply.
replies_send_and_await_writes ==
    /\ driver = "replies" /\ pc = "session"
    /\ run.script # << >> /\ ~run.awaiting
    /\ Head(run.script).await
    /\ sent' = Append(sent, Head(run.script).msg)
    /\ run' = [run EXCEPT !.awaiting = TRUE,
                          !.inbox = Append(@, Len(sent) + 1)]
    /\ UNCHANGED << pc, driver, script, awaiting, received, conn, navigation,
                    config, spot_prices, content, device, rewrites, first_run,
                    store, hist >>

\* Mutant: frames that answer earlier messages are skipped.
replies_send_and_await_returns_skips_stale ==
    /\ driver = "replies" /\ pc = "session"
    /\ run.awaiting /\ run.inbox # << >>
    /\ received' = received + 1
    /\ run' = [run EXCEPT
                  !.awaiting = FALSE,
                  !.script = Tail(@),
                  !.inbox = << >>,
                  !.returned = Append(@, [request |-> Len(sent),
                                          reply_to |-> Len(sent)])]
    /\ UNCHANGED << pc, driver, script, awaiting, sent, conn, navigation,
                    config, spot_prices, content, device, rewrites, first_run,
                    store, hist >>

\* WebsocketClient::send_and_await on this session, the return: the first
\* text frame of the stream is the result.
replies_send_and_await_returns ==
    /\ driver = "replies" /\ pc = "session"
    /\ run.awaiting /\ run.inbox # << >>
    /\ received' = received + 1
    /\ run' = [run EXCEPT
                  !.awaiting = FALSE,
                  !.script = Tail(@),
                  !.inbox = Tail(@),
                  !.returned = Append(@, [request |-> Len(sent),
                                          reply_to |-> Head(run.inbox)])]
    /\ UNCHANGED << pc, driver, script, awaiting, sent, conn, navigation,
                    config, spot_prices, content, device, rewrites, first_run,
                    store, hist >>

\* The steps the program takes by itself: plan() is sequential code, so a
\* step that can be taken is taken.
ProgramStep ==
    \/ tap_connect
    \/ block_connect
    \/ tap_logged_in
    \/ tap_water_navigate
    \/ tap_water_parse
    \/ plan_toggle
    \/ plan_set_temperature
    \/ plan_store_state
    \/ plan_block
    \/ block_logged_in
    \/ heating_navigate
    \/ heating_parse
    \/ plan_returns
    \/ send
    \/ send_and_await_request
    \/ local_error

\* set_tap_water_temperature_compare can be taken: the setpoint was read.
SetpointRead == pc = "temp_read" /\ script = << >> /\ ~awaiting

\* The runs start without a stored state, with blocking enabled and no
\* jitter; in one configuration the time zone does not parse.
InitResponsive ==
    \/ /\ Init
       /\ config \in {MkConfig(120, TRUE, 0, TRUE), MkConfig(120, FALSE, 0, TRUE)}
       /\ store = << >>
    \/ /\ driver = "wire" /\ run \in WireArgs
       /\ pc = "call"
       /\ config = MkConfig(120, TRUE, 0, TRUE)
       /\ device = MkDevice(0, FALSE, FALSE, 570)
       /\ script = << >>
       /\ awaiting = FALSE
       /\ sent = << >>
       /\ received = 0
       /\ conn = "test"
       /\ navigation = DeviceNavigation
       /\ spot_prices = << >>
       /\ content = << >>
       /\ rewrites = 0
       /\ first_run = NoRun
       /\ store = << >>
       /\ hist = NoHist
    \/ /\ driver = "replies"
       /\ run \in {[chatty |-> c, script |-> SessionScript(n), awaiting |-> FALSE,
                    inbox |-> << >>, answered |-> {}, returned |-> << >>] :
                       c \in BOOLEAN, n \in 0..MaxSlots}
       /\ pc = "session"
       /\ config = MkConfig(120, TRUE, 0, TRUE)
       /\ device = MkDevice(0, FALSE, FALSE, 570)
       /\ script = << >>
       /\ awaiting = FALSE
       /\ sent = << >>
       /\ received = 0
       /\ conn = "test"
       /\ navigation = DeviceNavigation
       /\ spot_prices = << >>
       /\ content = << >>
       /\ rewrites = 0
       /\ first_run = NoRun
       /\ store = << >>
       /\ hist = NoHist

NextResponsive ==
    \/ Next
    \/ send_and_await_writes
    \/ send_and_await_reads
    \/ send_and_await_reply_fails
    \/ send_and_await_fails
    \/ replies_send
    \/ replies_send_and_await_writes
    \/ replies_send_and_await_returns

\* The program does not stop between two steps (for the comparison of the
\* setpoint, which leaves SetpointRead, this is weak fairness written with
\* its enabling condition), and the device answers every awaited message
\* with a text frame unless the exchange fails first.
SpecResponsive ==
    /\ InitResponsive
    /\ [][NextResponsive]_vars
    /\ WF_vars(ProgramStep)
    /\ []<>(~SetpointRead)
    /\ WF_vars(send_and_await_text)

\* A call of plan() is under way, and it has returned.
Running == driver = "plan" /\ pc \notin {"idle", "done", "failed"}

Finished == driver = "plan" /\ pc \in {"done", "failed"}

\* The most messages one connection of a run carries: LOGIN, the GET of the
\* Week screen, a reset for every slot, two SETs and the SAVE, the toggle
\* macro, the GET of the temperatures and the longest setpoint macro.
MessageBound ==
    5 + MaxSlots
    + Len(toggle_continuous_desinfection(DeviceNavigation))
    + 1 + Len(AdjustTemperature(DeviceNavigation, 560, MAXIMUM_TAP_WATER_TEMPERATURE))

\* The frames read so far are pings, pongs and binary frames only.
OnlyControlFrames ==
    \A i \in 1..Len(run.seen) : run.seen[i].kind \in {"ping", "pong", "binary"}

\* C37: send_and_await has no timeout: it returns only when a text frame
\* arrives or a read or send error occurs, so while the device sends
\* nothing, or only ping, pong and binary frames, the call has not returned
\* and the run has neither completed nor persisted its state; and if the
\* device answers every awaited message with a text frame, every run
\* terminates, after a bounded number of messages.
C37_NoTimeout ==
    /\ []((driver = "plan" /\ awaiting) =>
              /\ Running
              /\ script # << >>
              /\ conn = "tap" => hist.stores = 0 /\ store = hist.store_before
              /\ received = 0 => sent = << Login >>
              /\ (received = 0 /\ hist.opened = 1) => hist.stores = 0)
    /\ [][(driver = "plan" /\ awaiting) =>
              \/ awaiting' /\ UNCHANGED << pc, script, sent, received, store >>
              \/ ~awaiting' /\ received' = received + 1
              \/ pc' = "failed"]_vars
    /\ []((driver = "wire" /\ pc \in {"reading", "returned"} /\ OnlyControlFrames) =>
              pc = "reading" /\ run.result = NoText)
    /\ [](driver = "plan" => Len(sent) <= MessageBound)
    /\ (Running ~> Finished)

\* A run has returned Ok after two sessions in which every awaited message
\* was answered.
C37_Witness ==
    /\ driver = "plan"
    /\ pc = "done"
    /\ hist.opened = 2
    /\ hist.stores = 1
    /\ hist.toggles = 1
    /\ received = Len(Awaited(sent))
    /\ last(sent).cmd = "SAVE"

\* The request of an exchange is the SAVE of the session or follows it.
FromSaveOn(x) == \E i \in 1..x.request : sent[i].cmd = "SAVE"

\* C38: with a device that writes exactly one text frame for each LOGIN,
\* GET, MOVE and SAVE and none for a SET, the text every send_and_await of a
\* session returns is the reply to the request that call just sent; if the
\* device writes a text frame for any SET sent with send, the SAVE exchange
\* and every later exchange of the session return the reply to an earlier
\* message.
C38_RepliesStayAligned ==
    driver = "replies" =>
        \A j \in 1..Len(run.returned) :
            LET x == run.returned[j]
            IN  /\ sent[x.request].cmd \in {"LOGIN", "GET", "MOVE", "SAVE"}
                /\ x.reply_to <= x.request
                /\ run.answered = {} => x.reply_to = x.request
                /\ (\A i \in run.answered : i > x.request) => x.reply_to = x.request
                /\ (run.answered # {} /\ FromSaveOn(x)) => x.reply_to < x.request

\* A session is over in which the device answered one SET: the SAVE was
\* handed the reply to that SET and the last MOVE the reply to the MOVE
\* before it.
C38_Witness ==
    /\ driver = "replies"
    /\ run.script = << >> /\ ~run.awaiting
    /\ Cardinality(run.answered) = 1
    /\ \E j \in 1..Len(run.returned) :
        /\ sent[run.returned[j].request].cmd = "SAVE"
        /\ run.returned[j].reply_to \in run.answered
    /\ last(run.returned).reply_to = last(run.returned).request - 1
    /\ sent[last(run.returned).request].cmd = "MOVE"

----------------------------------------------------------------------------
\* Vocabulary of the claim about two consecutive runs.

\* The window the run before this one disinfected in, as it stored it.
StoredWindow == hist.store_before[1].planned_spot_prices[1]

\* This is the second run; the first selected disinfection for a window of
\* positive total price and stored its end; that end is still ahead, and
\* the minimum number of hours between two disinfections is positive.
StartedBeforeStoredWindowEnds ==
    /\ driver = "plan" /\ hist.runs = 2
    /\ hist.store_before # << >>
    /\ hist.store_before[1].desinfection_enabled
    /\ StoredWindow # << >>
    /\ SumAllIn(StoredWindow) > 0
    /\ hist.store_before[1].desinfection_finished_at = << last(StoredWindow).till >>
    /\ run.now < last(StoredWindow).till
    /\ config.min_hours_since_last_desinfection > 0

\* C39: a run that selected disinfection for a window W of positive total
\* price stored desinfection_finished_at = end of W; the following run, started
\* before W ends with min_hours > 0, a cheapest disinfection window of
\* positive price ending less than min_hours after the end of W and a
\* non-empty heating window, decides that disinfection is not desired, runs
\* the toggle macro, which switches disinfection off again, and persists
\* disinfection_enabled = false, before W has run.
C39_SecondRunCancelsDesinfection ==
    StartedBeforeStoredWindowEnds =>
        /\ \A d \in DesinfectionAnswers \ {<< >>} :
              last(d).till - last(StoredWindow).till
                  < 60 * config.min_hours_since_last_desinfection
        /\ run.current_desinfection_enabled
        /\ run.desinfection_finished_at = last(StoredWindow).till
        /\ run.desinfection_desired => SumAllIn(run.best_spot_prices) <= 0
        /\ (~run.desinfection_desired /\ run.best_spot_prices # << >>) =>
              /\ "schedule" \in hist.done => hist.toggles = 1
              /\ "toggle" \in hist.done => ~device.continuous
              /\ hist.stores = 1 =>
                    /\ store = << State(FALSE, last(StoredWindow).till,
                                        run.best_spot_prices) >>
                    /\ run.now < Head(StoredWindow).from

\* The second run has switched disinfection off and persisted that, with the
\* window of the first run still to come.
C39_Witness ==
    /\ StartedBeforeStoredWindowEnds
    /\ Persisted
    /\ ~run.desinfection_desired
    /\ hist.toggles = 1
    /\ ~device.continuous
    /\ ~store[1].desinfection_enabled
    /\ run.now < Head(StoredWindow).from

====
